---------------------------- MODULE Spec2Model ----------------------------
(***************************************************************************)
(* A model of the RAG research agent's ingestion path:                     *)
(*   utils/pdf_processor.py  PDFProcessor (layout extraction, section      *)
(*                           tracking, chunking, process_pdf)              *)
(*   utils/vector_store.py   VectorStore.add_chunks                        *)
(*   app.py                  process_documents                             *)
(* Python strings are modelled as sequences of one-character strings, so   *)
(* that lower(), strip(), split(), join() and re.match() are computed.     *)
(***************************************************************************)
EXTENDS Integers, Sequences, FiniteSets, TLC

(***************************************************************************)
(* Python str                                                              *)
(***************************************************************************)
\* Python's None (no text is a sequence holding a multi-character element)
None == <<"None">>

Uppers == <<"A","B","C","D","E","F","G","H","I","J","K","L","M","N","O","P","Q","R","S","T","U","V","W","X","Y","Z">>

Lowers == <<"a","b","c","d","e","f","g","h","i","j","k","l","m","n","o","p","q","r","s","t","u","v","w","x","y","z">>

\* the characters str.split() and str.strip() treat as whitespace, and \s
IsSpace(c) == c \in {" ", "\t", "\n"}

LowerChar(c) ==
    IF \E i \in DOMAIN Uppers : Uppers[i] = c
    THEN Lowers[CHOOSE i \in DOMAIN Uppers : Uppers[i] = c]
    ELSE c

\* str.lower()
Lower(t) == [i \in 1..Len(t) |-> LowerChar(t[i])]

\* str.strip()
Strip(t) ==
    LET keep == {i \in 1..Len(t) : ~IsSpace(t[i])}
    IN  IF keep = {} THEN <<>>
        ELSE LET lo == CHOOSE i \in keep : \A j \in keep : i <= j
                 hi == CHOOSE i \in keep : \A j \in keep : j <= i
             IN  SubSeq(t, lo, hi)

\* the positions at which a word of str.split() starts
WordStarts(t) == {i \in 1..Len(t) : ~IsSpace(t[i]) /\ (i = 1 \/ IsSpace(t[i-1]))}

\* len(str.split())
WordCount(t) == Cardinality(WordStarts(t))

\* str.split()[0], for a text that has a word
FirstWord(t) ==
    LET s  == CHOOSE i \in WordStarts(t) : \A j \in WordStarts(t) : i <= j
        e  == CHOOSE i \in s..Len(t) :
                 /\ \A j \in s..i : ~IsSpace(t[j])
                 /\ (i = Len(t) \/ IsSpace(t[i+1]))
    IN  SubSeq(t, s, e)

\* text.startswith(p)
StartsWith(t, p) == Len(t) >= Len(p) /\ SubSeq(t, 1, Len(p)) = p

\* text.endswith(p)
EndsWith(t, p) == Len(t) >= Len(p) /\ SubSeq(t, Len(t) - Len(p) + 1, Len(t)) = p

RECURSIVE Join(_)
\* " ".join(parts)
Join(parts) ==
    IF Len(parts) = 0 THEN <<>>
    ELSE IF Len(parts) = 1 THEN parts[1]
    ELSE parts[1] \o <<" ">> \o Join(Tail(parts))

\* a text of n one-letter words separated by single spaces
Words(n) == [i \in 1..(IF n = 0 THEN 0 ELSE 2*n - 1) |-> IF i % 2 = 1 THEN "w" ELSE " "]

RECURSIVE SeqSum(_)
SeqSum(s) == IF Len(s) = 0 THEN 0 ELSE Head(s) + SeqSum(Tail(s))

\* all sequences over S of length at most n
SeqsUpTo(S, n) == UNION {[1..k -> S] : k \in 0..n}

(***************************************************************************)
(* re.match(pattern, text) for the section patterns.  A pattern is kept as *)
(* the literal words it requires, in order, separated by \s+; its optional *)
(* tails ((s)?, (s|ology)?, ...) match the empty string and so never       *)
(* decide whether re.match succeeds.                                       *)
(***************************************************************************)
RECURSIVE ReMatchFrom(_, _, _)
ReMatchFrom(words, t, pos) ==
    LET w    == Head(words)
        rest == SubSeq(t, pos, Len(t))
    IN  /\ StartsWith(rest, w)
        /\ IF Len(words) = 1 THEN TRUE
           ELSE LET after == pos + Len(w)
                    gap   == {n \in 1..(Len(t) - after + 1) :
                                 \A j \in after..(after + n - 1) : IsSpace(t[j])}
                IN  /\ gap # {}
                    /\ LET n == CHOOSE m \in gap : \A k \in gap : k <= m
                       IN  ReMatchFrom(Tail(words), t, after + n)

ReMatch(pattern, t) == ReMatchFrom(pattern, t, 1)

pat_abstract == <<<<"a","b","s","t","r","a","c","t">>>>

pat_introduction == <<<<"i","n","t","r","o","d","u","c","t","i","o","n">>>>

pat_related_work == <<<<"r","e","l","a","t","e","d">>, <<"w","o","r","k">>>>

pat_literature_review == <<<<"l","i","t","e","r","a","t","u","r","e">>, <<"r","e","v","i","e","w">>>>

pat_background == <<<<"b","a","c","k","g","r","o","u","n","d">>>>

pat_method == <<<<"m","e","t","h","o","d">>>>

pat_experiment == <<<<"e","x","p","e","r","i","m","e","n","t">>>>

pat_implementation == <<<<"i","m","p","l","e","m","e","n","t","a","t","i","o","n">>>>

pat_result == <<<<"r","e","s","u","l","t">>>>

pat_discussion == <<<<"d","i","s","c","u","s","s","i","o","n">>>>

pat_conclusion == <<<<"c","o","n","c","l","u","s","i","o","n">>>>

pat_future_work == <<<<"f","u","t","u","r","e">>, <<"w","o","r","k">>>>

pat_reference == <<<<"r","e","f","e","r","e","n","c","e">>>>

pat_acknowledgment == <<<<"a","c","k","n","o","w","l","e","d","g","m","e","n","t">>>>

\* self.section_patterns, in the order of the list
section_patterns == <<pat_abstract, pat_introduction, pat_related_work, pat_literature_review, pat_background, pat_method, pat_experiment, pat_implementation, pat_result, pat_discussion, pat_conclusion, pat_future_work, pat_reference, pat_acknowledgment>>

(***************************************************************************)
(* Python objects and exceptions                                           *)
(***************************************************************************)
\* no exception is pending
NoExc == "none"

\* hasattr(obj, name): an attribute lookup that fails raises AttributeError
HasAttr(obj, name) == name \in DOMAIN obj

\* the default of PDFProcessor.__init__'s chunk_size, and app.py's argument
DefaultChunkSize == 500

\* the font size above which a block is a heading
HeadingFontSize == 12

\* PDFProcessor.__init__: the instance attributes it sets
PDFProcessor(chunk_size) ==
    [chunk_size |-> chunk_size, section_patterns |-> section_patterns]

\* the methods class PDFProcessor defines
PDFProcessorMethods ==
    {"process_pdf", "_extract_text_with_structure", "_detect_section",
     "_extract_images", "_find_image_caption", "_extract_tables",
     "_find_table_caption", "_create_chunks", "_extract_headings"}

(***************************************************************************)
(* PDFProcessor._detect_section                                            *)
(***************************************************************************)
\* the for loop over self.section_patterns from its k-th pattern on: the
\* "return None" is in the loop body, after the if
DetectSectionLoop(patterns, k, text_lower) ==
    IF k > Len(patterns) THEN None
    ELSE IF ReMatch(patterns[k], text_lower) THEN FirstWord(text_lower)
    ELSE None

_detect_section(self, text) ==
    DetectSectionLoop(self.section_patterns, 1, Strip(Lower(text)))

(***************************************************************************)
(* PDFProcessor._extract_text_with_structure                               *)
(* A document is a sequence of pages; a page has its layout blocks         *)
(* (page.get_text("dict")["blocks"]); a layout block has a type and lines, *)
(* a line has spans, a span has text and size.                             *)
(***************************************************************************)
Max(a, b) == IF a >= b THEN a ELSE b

RECURSIVE Flatten(_)
\* the spans of a block in the order the two nested loops visit them
Flatten(lines) == IF Len(lines) = 0 THEN <<>> ELSE Head(lines) \o Flatten(Tail(lines))

RECURSIVE SpanLoop(_, _)
\* the loop over spans: acc is [block_text, max_font_size]
SpanLoop(spans, acc) ==
    IF Len(spans) = 0 THEN acc
    ELSE LET span == Head(spans)
         IN  SpanLoop(Tail(spans),
                 IF Len(span.text) > 0
                 THEN [block_text    |-> span.text \o <<" ">>,
                       max_font_size |-> Max(acc.max_font_size, span.size)]
                 ELSE acc)


\* a section update that takes the text of an unrecognized heading
UpdateSectionToHeading(current_section, is_heading, detected, block_text) ==
    IF is_heading
    THEN (IF detected # None /\ Len(detected) > 0 THEN detected ELSE Lower(block_text))
    ELSE current_section

\* lines 137-140: "if is_heading: detected = ...; if detected: current_section
\* = detected"
UpdateSection(current_section, is_heading, detected, block_text) ==
    IF is_heading /\ detected # None /\ Len(detected) > 0
    THEN detected ELSE current_section

\* one iteration of "for block in blocks" with the locals st =
\* [current_section, text_blocks]
ExtractBlock(self, st, block, page_num) ==
    IF block.type # 0 THEN st
    ELSE LET acc          == SpanLoop(Flatten(block.lines),
                                      [block_text |-> <<>>, max_font_size |-> 0])
             block_text   == Strip(acc.block_text)
             is_heading   == acc.max_font_size > HeadingFontSize
             detected     == IF is_heading THEN _detect_section(self, block_text) ELSE None
             cur          == UpdateSection(st.current_section, is_heading, detected,
                                           block_text)
         IN  IF Len(block_text) = 0 THEN st
             ELSE [current_section |-> cur,
                   text_blocks |-> Append(st.text_blocks,
                       [text       |-> block_text,
                        page       |-> page_num,
                        section    |-> cur,
                        heading    |-> IF is_heading THEN block_text ELSE None,
                        font_size  |-> acc.max_font_size,
                        is_heading |-> is_heading])]

\* the sentinel section of _extract_text_with_structure
sUnknownUpper == <<"U","n","k","n","o","w","n">>

\* the locals before the first page
ExtractStart == [current_section |-> sUnknownUpper, text_blocks |-> <<>>]

RECURSIVE ExtractBlocks(_, _, _, _)
ExtractBlocks(self, st, blocks, page_num) ==
    IF Len(blocks) = 0 THEN st
    ELSE ExtractBlocks(self, ExtractBlock(self, st, Head(blocks), page_num),
                       Tail(blocks), page_num)

RECURSIVE ExtractPages(_, _, _, _)
ExtractPages(self, st, doc, page_num) ==
    IF page_num > Len(doc) THEN st
    ELSE ExtractPages(self, ExtractBlocks(self, st, doc[page_num].blocks, page_num),
                      doc, page_num + 1)

\* the whole function on a document pymupdf can open
_extract_text_with_structure(self, doc) ==
    ExtractPages(self, ExtractStart, doc, 1).text_blocks

(***************************************************************************)
(* PDFProcessor._create_chunks                                             *)
(***************************************************************************)
\* the sentinel section of _create_chunks
sUnknownLower == <<"u","n","k","n","o","w","n">>

\* the locals before the loop
CreateChunksStart ==
    [chunks             |-> <<>>,
     current_chunk_text |-> <<>>,
     current_word_count |-> 0,
     chunk_id           |-> 0,
     current_section    |-> sUnknownLower,
     current_page       |-> 1,
     current_heading    |-> None,
     exc                |-> NoExc]

\* the chunk dict built from the locals
SealChunk(st) ==
    [text     |-> Join(st.current_chunk_text),
     metadata |-> [chunk_id   |-> st.chunk_id,
                   section    |-> st.current_section,
                   page       |-> st.current_page,
                   heading    |-> st.current_heading,
                   word_count |-> st.current_word_count]]

\* one iteration of "for block in text_blocks"; exc # None: the iteration raised
CreateChunksBlock(self, st, block) ==
    IF block.is_heading
    THEN [st EXCEPT !.current_heading = block.text,
                    !.current_section = block.text,
                    !.current_page    = block.page]
    ELSE LET block_text == block.text
             block_word == WordCount(block_text)
             st1 == [st EXCEPT !.current_section = block.section,
                               !.current_page    = block.page]
         IN  IF ~HasAttr(self, "chunks_size")
             THEN [st1 EXCEPT !.exc = "AttributeError"]
             ELSE LET st2 ==
                        IF /\ st1.current_word_count + block_word > self.chunks_size
                           /\ Len(st1.current_chunk_text) > 0
                        THEN [st1 EXCEPT !.chunks = Append(@, SealChunk(st1)),
                                         !.chunk_id = @ + 1,
                                         !.current_chunk_text = <<>>,
                                         !.current_word_count = 0]
                        ELSE st1
                  IN  [st2 EXCEPT !.current_chunk_text = Append(@, block_text),
                                  !.current_word_count = @ + block_word]

\* CreateChunksEnd without the "if current_chunk_text" test
CreateChunksEndUnguarded(st) == Append(st.chunks, SealChunk(st))

\* after the loop: the partially filled last chunk, and the returned list
CreateChunksEnd(st) ==
    IF Len(st.current_chunk_text) > 0
    THEN Append(st.chunks, SealChunk(st))
    ELSE st.chunks

RECURSIVE CreateChunksLoop(_, _, _)
CreateChunksLoop(self, st, blocks) ==
    IF Len(blocks) = 0 \/ st.exc # NoExc THEN st
    ELSE CreateChunksLoop(self, CreateChunksBlock(self, st, Head(blocks)), Tail(blocks))

\* the whole call: [raised, exc, value]
_create_chunks(self, text_blocks) ==
    LET st == CreateChunksLoop(self, CreateChunksStart, text_blocks)
    IN  IF st.exc # NoExc
        THEN [raised |-> TRUE, exc |-> st.exc, value |-> None]
        ELSE [raised |-> FALSE, exc |-> NoExc, value |-> CreateChunksEnd(st)]

(***************************************************************************)
(* Results of calls: a call returns a value or raises an exception         *)
(***************************************************************************)
Return(v) == [raised |-> FALSE, exc |-> NoExc, value |-> v]

Raise(e) == [raised |-> TRUE, exc |-> e, value |-> None]

(***************************************************************************)
(* PDFProcessor._extract_images and _find_image_caption                    *)
(* An image of a page is [extractable, rect]; rect is the pymupdf.Rect of  *)
(* page.get_image_bbox, with the attributes read here.                     *)
(***************************************************************************)
Rect(x0, y0, x1, y1) ==
    [x0 |-> x0, y0 |-> y0, x1 |-> x1, y1 |-> y1, width |-> x1 - x0, height |-> y1 - y0]

\* the search area is built from img_rect.x0, img_rect.xy, img_rect.x1 and
\* img_rect.y1: a Rect has no attribute xy
_find_image_caption(page, img_rect) ==
    CASE ~HasAttr(img_rect, "xy") -> Raise("AttributeError")

\* the try block for one image: the item, or the exception the except clause
\* catches
ExtractImage(page, page_num, img_index, img) ==
    IF ~img.extractable THEN Raise("ValueError")
    ELSE LET caption == _find_image_caption(page, img.rect)
         IN  IF caption.raised THEN caption
             ELSE Return([page        |-> page_num,
                          caption     |-> caption.value,
                          image_index |-> img_index,
                          position    |-> [x |-> img.rect.x0, y |-> img.rect.y0],
                          size        |-> [width |-> img.rect.width,
                                           height |-> img.rect.height]])

RECURSIVE ExtractPageImages(_, _, _, _)
ExtractPageImages(page, page_num, k, images) ==
    IF k > Len(page.images) THEN images
    ELSE LET r == ExtractImage(page, page_num, k - 1, page.images[k])
         IN  ExtractPageImages(page, page_num, k + 1,
                               IF r.raised THEN images ELSE Append(images, r.value))

RECURSIVE ExtractImagesFrom(_, _, _)
ExtractImagesFrom(doc, page_num, images) ==
    IF page_num > Len(doc) THEN images
    ELSE ExtractImagesFrom(doc, page_num + 1,
                           ExtractPageImages(doc[page_num], page_num, 1, images))

\* the results the call can have: pymupdf.open is given the keyword file_type
\* (the library's parameter is filetype), which the library may reject
_extract_images(doc) ==
    {Raise("TypeError"), Return(ExtractImagesFrom(doc, 1, <<>>))}

(***************************************************************************)
(* PDFProcessor._extract_tables and _find_table_caption                    *)
(* A table of a page is a sequence of rows, a row a sequence of cells.     *)
(***************************************************************************)
\* the attributes of a pdfplumber page that this code could read
PlumberPageAttrs == {"extract_tables", "extract_text", "extract_words", "page_number"}

\* its first statement is page.get_text(): a pdfplumber page has no get_text
_find_table_caption(page, table_index) ==
    CASE "get_text" \notin PlumberPageAttrs -> Raise("AttributeError")

CleanRow(row) == [c \in DOMAIN row |-> IF row[c] # None /\ Len(row[c]) > 0
                                       THEN Strip(row[c]) ELSE <<>>]

\* a filter that lets one-row tables through
SkipTableEmptyOnly(table_data) == Len(table_data) < 1

\* line 288: "if not table_data or len(table_data)<2: continue"
SkipTable(table_data) == Len(table_data) < 2

RECURSIVE ExtractPageTables(_, _, _, _)
\* the loop over page_tables from its k-th table on: [raised, exc, value]
ExtractPageTables(page, page_num, k, tables) ==
    IF k > Len(page.tables) THEN Return(tables)
    ELSE LET table_data == page.tables[k]
         IN  IF SkipTable(table_data)
             THEN ExtractPageTables(page, page_num, k + 1, tables)
             ELSE LET cleaned_table == [r \in DOMAIN table_data |-> CleanRow(table_data[r])]
                      caption == _find_table_caption(page, k - 1)
                  IN  IF caption.raised THEN caption
                      ELSE ExtractPageTables(page, page_num, k + 1,
                               Append(tables,
                                   [data        |-> cleaned_table,
                                    page        |-> page_num,
                                    caption     |-> caption.value,
                                    table_index |-> k - 1,
                                    num_rows    |-> Len(cleaned_table),
                                    num_cols    |-> Len(cleaned_table[1]),
                                    headers     |-> cleaned_table[1]]))

RECURSIVE ExtractTablesFrom(_, _, _)
ExtractTablesFrom(doc, page_num, tables) ==
    IF page_num > Len(doc) THEN Return(tables)
    ELSE LET r == ExtractPageTables(doc[page_num], page_num, 1, tables)
         IN  IF r.raised THEN r ELSE ExtractTablesFrom(doc, page_num + 1, r.value)

_extract_tables(doc) == ExtractTablesFrom(doc, 1, <<>>)

(***************************************************************************)
(* PDFProcessor._extract_headings                                          *)
(***************************************************************************)
RECURSIVE _extract_headings(_)
_extract_headings(text_blocks) ==
    IF Len(text_blocks) = 0 THEN <<>>
    ELSE LET block == Head(text_blocks)
         IN  (IF block.is_heading
              THEN <<[heading |-> block.text, page |-> block.page, section |-> block.section]>>
              ELSE <<>>) \o _extract_headings(Tail(text_blocks))

(***************************************************************************)
(* PDFProcessor.process_pdf                                                *)
(* An uploaded file is [name, valid, doc]: valid says whether its bytes    *)
(* are a PDF pymupdf can open, doc is the pages of that PDF.               *)
(***************************************************************************)
\* a method call self.name(...) finds the method
HasMethod(self, name) == name \in PDFProcessorMethods \/ HasAttr(self, name)

\* line 55: pymupdf.open raises on bytes that are no PDF
ProcessPdfText(self, pdf_file) ==
    IF ~pdf_file.valid THEN Raise("FileDataError")
    ELSE Return(_extract_text_with_structure(self, pdf_file.doc))

\* line 64: the class defines no method _create_chunks_with_metadata
ProcessPdfChunks(self, text_data) ==
    CASE ~HasMethod(self, "_create_chunks_with_metadata") -> Raise("AttributeError")

\* the results the call can have
process_pdf(self, pdf_file) ==
    LET text_data == ProcessPdfText(self, pdf_file)
    IN  IF text_data.raised THEN {text_data}
        ELSE UNION {
               IF images.raised THEN {images}
               ELSE LET tables == _extract_tables(pdf_file.doc)
                    IN  IF tables.raised THEN {tables}
                        ELSE LET chunks == ProcessPdfChunks(self, text_data.value)
                             IN  IF chunks.raised THEN {chunks}
                                 ELSE {Return([chunks    |-> chunks.value,
                                               images    |-> images.value,
                                               tables    |-> tables.value,
                                               headings  |-> _extract_headings(text_data.value),
                                               file_name |-> pdf_file.name])}
               : images \in _extract_images(pdf_file.doc)}

(***************************************************************************)
(* VectorStore.add_chunks                                                  *)
(* The collection is a function from ids to [document, metadata].          *)
(* dup_policy is what collection.add does with an id the collection        *)
(* already holds, which depends on the chromadb release: "ignore" (the     *)
(* record is skipped) or "raise" (the call fails and adds nothing).        *)
(***************************************************************************)
Digits == <<"0","1","2","3","4","5","6","7","8","9">>

RECURSIVE Str(_)
\* str(i) for i >= 0
Str(i) == IF i < 10 THEN <<Digits[i + 1]>> ELSE Str(i \div 10) \o <<Digits[(i % 10) + 1]>>

\* f"{file_name}_chunk_{i}"
ChunkIdOf(file_name, i) == file_name \o <<"_","c","h","u","n","k","_">> \o Str(i)

\* the locals before the loop
AddChunksStart == [texts |-> <<>>, metadatas |-> <<>>, ids |-> <<>>]

\* chunk_metadata["filename"] = file_name
WithFilename(metadata, file_name) ==
    [f \in DOMAIN metadata \cup {"filename"} |->
        IF f = "filename" THEN file_name ELSE metadata[f]]

\* self.embedding_model.encode(texts): it returns, or the model fails
EncodeOutcomes == {NoExc, "EncodeError"}

\* self.collection.add(documents, embeddings, metadatas, ids): the
\* collections it can leave, each with the exception raised
CollectionAdd(collection, policy, texts, metadatas, ids) ==
    LET held == {k \in DOMAIN ids : ids[k] \in DOMAIN collection}
        new  == {ids[k] : k \in DOMAIN ids \ held}
        rec(id) == LET k == CHOOSE k \in DOMAIN ids : ids[k] = id
                   IN  [document |-> texts[k], metadata |-> metadatas[k]]
    IN  {[collection |-> collection, exc |-> "AddError"]}
        \cup (IF held # {} /\ policy = "raise"
              THEN {[collection |-> collection, exc |-> "DuplicateIDError"]}
              ELSE {[collection |-> [id \in DOMAIN collection \cup new |->
                                        IF id \in DOMAIN collection THEN collection[id]
                                        ELSE rec(id)],
                     exc |-> NoExc]})

\* one iteration of "for i, chunk in enumerate(chunks)", i counted from 0:
\* the [st, collection, exc, sent] it can end with, sent being the ids it
\* handed to collection.add (none when the call was not reached)
AddChunksIteration(collection, policy, st, chunk, i, file_name) ==
    LET chunk_text == chunk.text
    IN  IF Len(Strip(chunk_text)) = 0
        THEN {[st |-> st, collection |-> collection, exc |-> NoExc, sent |-> <<>>]}
        ELSE LET st1 == [texts     |-> Append(st.texts, chunk_text),
                         metadatas |-> Append(st.metadatas,
                                              WithFilename(chunk.metadata, file_name)),
                         ids       |-> Append(st.ids, ChunkIdOf(file_name, i))]
             IN  UNION {
                   IF e # NoExc
                   THEN {[st |-> st1, collection |-> collection, exc |-> e, sent |-> <<>>]}
                   ELSE {[st |-> st1, collection |-> a.collection, exc |-> a.exc,
                          sent |-> st1.ids] :
                            a \in CollectionAdd(collection, policy, st1.texts,
                                                st1.metadatas, st1.ids)}
                   : e \in EncodeOutcomes}

RECURSIVE AddChunksLoop(_, _, _, _, _, _)
\* the loop from chunk number i (counted from 0) on, then "return len(texts)":
\* the [collection, raised, exc, value] the call can end with
AddChunksLoop(collection, policy, st, chunks, i, file_name) ==
    IF i >= Len(chunks)
    THEN {[collection |-> collection, raised |-> FALSE, exc |-> NoExc,
           value |-> Len(st.texts)]}
    ELSE UNION {
           IF o.exc # NoExc
           THEN {[collection |-> o.collection, raised |-> TRUE, exc |-> o.exc, value |-> 0]}
           ELSE AddChunksLoop(o.collection, policy, o.st, chunks, i + 1, file_name)
           : o \in AddChunksIteration(collection, policy, st, chunks[i + 1], i, file_name)}

\* the whole call
add_chunks(collection, policy, chunks, file_name) ==
    IF Len(chunks) = 0
    THEN {[collection |-> collection, raised |-> FALSE, exc |-> NoExc, value |-> 0]}
    ELSE AddChunksLoop(collection, policy, AddChunksStart, chunks, 0, file_name)


(***************************************************************************)
(* VectorStore.search                                                      *)
(* Floats are counted in thousandths.  filters is [is_none, items], items  *)
(* the set of <<key, value>> pairs of the dict.  store_up says whether the *)
(* chromadb client reaches its database.  dist gives the distance of the   *)
(* query's embedding to each stored record.                                *)
(***************************************************************************)
\* the float 1.0
One == 1000

NoFilters == [is_none |-> TRUE, items |-> {}]

Filters(items) == [is_none |-> FALSE, items |-> items]

\* dict.get(key)
DictGet(items, key) ==
    IF \E p \in items : p[1] = key
    THEN (CHOOSE p \in items : p[1] = key)[2]
    ELSE None

\* the truth value of a str or None
Truthy(v) == v # None /\ Len(v) > 0

\* a where clause that takes the conditions as alternatives
WhereFiltersAny(filters) ==
    IF filters.is_none \/ filters.items = {} THEN [op |-> "none"]
    ELSE LET where_conditions ==
                 (IF Truthy(DictGet(filters.items, "section"))
                  THEN <<[op |-> "$eq", field |-> "section",
                          value |-> DictGet(filters.items, "section")]>>
                  ELSE <<>>)
                 \o (IF Truthy(DictGet(filters.items, "filename"))
                     THEN <<[op |-> "$eq", field |-> "filename",
                             value |-> DictGet(filters.items, "filename")]>>
                     ELSE <<>>)
         IN  IF Len(where_conditions) = 0 THEN [op |-> "none"]
             ELSE IF Len(where_conditions) = 1 THEN where_conditions[1]
             ELSE [op |-> "$or", conds |-> where_conditions]

\* lines 172-193: where_filters
WhereFilters(filters) ==
    IF filters.is_none \/ filters.items = {} THEN [op |-> "none"]
    ELSE LET where_conditions ==
                 (IF Truthy(DictGet(filters.items, "section"))
                  THEN <<[op |-> "$eq", field |-> "section",
                          value |-> DictGet(filters.items, "section")]>>
                  ELSE <<>>)
                 \o (IF Truthy(DictGet(filters.items, "filename"))
                     THEN <<[op |-> "$eq", field |-> "filename",
                             value |-> DictGet(filters.items, "filename")]>>
                     ELSE <<>>)
         IN  IF Len(where_conditions) = 0 THEN [op |-> "none"]
             ELSE IF Len(where_conditions) = 1 THEN where_conditions[1]
             ELSE [op |-> "$and", conds |-> where_conditions]

\* chromadb: a record's metadata satisfies one $eq condition
MatchesEq(metadata, cond) ==
    cond.field \in DOMAIN metadata /\ metadata[cond.field] = cond.value

\* chromadb: a record's metadata satisfies the where clause
Matches(metadata, where) ==
    CASE where.op = "none" -> TRUE
      [] where.op = "$eq"  -> MatchesEq(metadata, where)
      [] where.op = "$and" -> \A k \in DOMAIN where.conds : MatchesEq(metadata, where.conds[k])
      [] where.op = "$or"  -> \E k \in DOMAIN where.conds : MatchesEq(metadata, where.conds[k])

Min(a, b) == IF a < b THEN a ELSE b

\* self.collection.query(query_embeddings, n_results, where): the records
\* that satisfy where, nearest first, at most n_results of them (a request
\* for more than there are gives all there are); records at the same
\* distance come in an order the index chooses
CollectionQuery(collection, dist, n_results, where) ==
    LET hits == {id \in DOMAIN collection : Matches(collection[id].metadata, where)}
        n    == Min(n_results, Cardinality(hits))
        ranked == {r \in [1..Cardinality(hits) -> hits] :
                     /\ \A i, j \in DOMAIN r : i < j =>
                           r[i] # r[j] /\ dist[r[i]] <= dist[r[j]]}
    IN  {[ids       |-> <<[k \in 1..n |-> r[k]]>>,
          documents |-> <<[k \in 1..n |-> collection[r[k]].document]>>,
          metadatas |-> <<[k \in 1..n |-> collection[r[k]].metadata]>>,
          distances |-> <<[k \in 1..n |-> dist[r[k]]]>>] : r \in ranked}

\* lines 224-233: formatted_result
FormatResults(results) ==
    IF Len(results.documents) > 0 /\ Len(results.documents[1]) > 0
    THEN [i \in DOMAIN results.documents[1] |->
            [text       |-> results.documents[1][i],
             metadata   |-> results.metadatas[1][i],
             similarity |-> One - results.distances[1][i],
             chunk_id   |-> results.ids[1][i]]]
    ELSE <<>>

\* the raw result of a query that was not made
NoResults == [ids |-> <<>>, documents |-> <<>>, metadatas |-> <<>>, distances |-> <<>>]

\* the call: the [raised, exc, value, results] it can end with, results
\* being its local of that name
search(collection, store_up, dist, n_results, filters) ==
    IF ~store_up
    THEN {[raised |-> TRUE, exc |-> "ChromaError", value |-> <<>>, results |-> NoResults]}
    ELSE IF Cardinality(DOMAIN collection) = 0
    THEN {[raised |-> FALSE, exc |-> NoExc, value |-> <<>>, results |-> NoResults]}
    ELSE UNION {
           IF e # NoExc
           THEN {[raised |-> TRUE, exc |-> e, value |-> <<>>, results |-> NoResults]}
           ELSE {[raised |-> FALSE, exc |-> NoExc, value |-> FormatResults(results),
                  results |-> results] :
                    results \in CollectionQuery(collection, dist, n_results,
                                                WhereFilters(filters))}
           : e \in EncodeOutcomes}


(***************************************************************************)
(* rag_agent.py: RAGAgent._build_context and RAGAgent._format_sources      *)
(* A retrieved chunk is [text, metadata, similarity, chunk_id], with       *)
(* similarity in thousandths.  The character U+1F4C4 (page facing up) is   *)
(* written "U+1F4C4".                                                      *)
(***************************************************************************)
NL == <<"\n">>

\* str.upper() of one character
UpperChar(c) ==
    IF \E k \in DOMAIN Lowers : Lowers[k] = c
    THEN Uppers[CHOOSE k \in DOMAIN Lowers : Lowers[k] = c]
    ELSE c

IsLetter(c) == (\E k \in DOMAIN Lowers : Lowers[k] = c) \/ (\E k \in DOMAIN Uppers : Uppers[k] = c)

\* str.title(): a letter that follows no letter in upper case, the other
\* letters in lower case
Title(str) ==
    [k \in DOMAIN str |->
        IF k > 1 /\ IsLetter(str[k - 1]) THEN LowerChar(str[k]) ELSE UpperChar(str[k])]

\* int(a / b) for b > 0: the quotient cut off towards zero
TruncDiv(a, b) == IF a >= 0 THEN a \div b ELSE -((-a) \div b)

\* str(n) of an int
StrInt(n) == IF n < 0 THEN <<"-">> \o Str(-n) ELSE Str(n)

RECURSIVE JoinWith(_, _)
\* sep.join(parts)
JoinWith(sep, parts) ==
    IF Len(parts) = 0 THEN <<>>
    ELSE IF Len(parts) = 1 THEN parts[1]
    ELSE parts[1] \o sep \o JoinWith(sep, Tail(parts))

\* lines 116-131: the entry of context_parts for the i-th chunk
ContextPart(i, chunk) ==
    LET metadata == chunk.metadata
        source_info ==
            <<"[","S","o","u","r","c","e">> \o StrInt(i) \o <<" ","-"," ">>
            \o (IF "page" \in DOMAIN metadata
                THEN <<"P","a","g","e"," ">> \o StrInt(metadata.page) ELSE <<>>)
            \o (IF "section" \in DOMAIN metadata
                THEN <<","," ","S","e","c","t","i","o","n",":"," ">> \o metadata.section ELSE <<>>)
            \o <<"]">>
    IN  source_info \o NL \o chunk.text \o NL

RECURSIVE BuildContextLoop(_, _, _)
\* "for i, chunk in enumerate(chunks, start=1)" from the i-th chunk on; the
\* return statement of line 133 is a statement of the loop body, so the
\* pass that appends a part also returns
BuildContextLoop(chunks, i, context_parts) ==
    IF i > Len(chunks) THEN None
    ELSE LET parts == Append(context_parts, ContextPart(i, chunks[i]))
         IN  JoinWith(NL \o <<"-","-","-","-","-","-","-","-","-","-","-","-","-","-","-">> \o NL, parts)

_build_context(chunks) == BuildContextLoop(chunks, 1, <<>>)

\* lines 262-279: source_line + "\n" for the i-th source
SourceLine(i, source) ==
    LET metadata == source.metadata
    IN  StrInt(i) \o <<"."," ">>
        \o (IF "filename" \in DOMAIN metadata
            THEN <<"U+1F4C4", " ">> \o metadata.filename ELSE <<>>)
        \o (IF "page" \in DOMAIN metadata
            THEN <<" ","(","P","a","g","e"," ">> \o StrInt(metadata.page) \o <<")">> ELSE <<>>)
        \o (IF "section" \in DOMAIN metadata
            THEN <<" ","-"," ">> \o Title(metadata.section) ELSE <<>>)
        \o (IF "similarity" \in DOMAIN source
            THEN <<" ","-"," ","R","e","l","e","v","a","n","c","e",":"," ">> \o StrInt(TruncDiv(source.similarity * 100, One)) \o <<"%">>
            ELSE <<>>)
        \o NL

RECURSIVE FormatSourcesLoop(_, _, _)
FormatSourcesLoop(sources, i, formatted) ==
    IF i > Len(sources) THEN formatted
    ELSE FormatSourcesLoop(sources, i + 1, formatted \o SourceLine(i, sources[i]))

_format_sources(sources) ==
    IF Len(sources) = 0 THEN <<"N","o"," ","s","o","u","r","c","e","s"," ","f","o","u","n","d",".">>
    ELSE FormatSourcesLoop(sources, 1, <<"*","*","S","o","u","r","c","e","s",":","*","*">> \o NL \o NL)


(***************************************************************************)
(* "except Exception" (app.py line 157, rag_agent.py line 240)             *)
(***************************************************************************)
\* an except clause that names only the parse error
ExceptExceptionNarrow(exc) == exc = "FileDataError"

\* "except Exception" catches the exception
ExceptException(exc) ==
    exc \in {"AttributeError", "TypeError", "ValueError", "FileDataError",
             "EncodeError", "AddError", "DuplicateIDError", "ChromaError",
             "ConnectionError", "ResponseError", "KeyError"}

(***************************************************************************)
(* rag_agent.py: RAGAgent._create_prompt, _generate_answer,                *)
(* answer_question                                                         *)
(* What ollama.chat does is [exc, response]: the exception it raises, or   *)
(* the response it gives.                                                  *)
(***************************************************************************)
\* line 80
NoInformationAnswer == <<"I"," ","c","o","u","l","d","n","'","t"," ","f","i","n","d"," ","a","n","y"," ","r","e","l","e","v","a","n","t"," ","i","n","f","o","r","m","a","t","i","o","n"," ","i","n"," ","t","h","e"," ","u","p","l","o","a","d","e","d"," ","d","o","c","u","m","e","n","t","s","."," ","P","l","e","a","s","e"," ","m","a","k","e"," ","s","u","r","e"," ","y","o","u","'","v","e"," ","u","p","l","o","a","d","e","d"," ","P","D","F","s"," ","f","i","r","s","t",".">>

\* the f-string of lines 148-209: context and question are put on lines
\* 156 and 157; of the fixed text around them the first and the last line
\* are kept
_create_prompt(question, context) ==
    <<"*","*","R","o","l","e","*","*"," ",":"," ","Y","o","u"," ","a","r","e"," ","N","i","c","k"," ","t","h","e"," ","A","I"," ","t","e","a","c","h","e","r"," ",","," ","h","e","l","p","i","n","g"," ","u","s","e","r"," ","t","o"," ","a","n","s","w","e","r"," ","t","h","e"," ","q","u","e","s","t","i","o","n"," ","b","a","s","e","d"," ","o","n"," ","t","h","e"," ","d","o","c","u","m","e","n","t","/","d","o","c","u","m","e","n","t","s"," ","p","r","o","v","i","d","e","d",".">> \o NL
    \o <<"c","o","n","t","e","x","t",":"," ">> \o context \o NL
    \o <<"Q","u","e","s","t","i","o","n",":"," ">> \o question \o NL
    \o <<"A","n","s","w","e","r",":">> \o NL
    \o <<"-"," ","E","n","d"," ","s","e","s","s","i","o","n"," ","b","y"," ","t","h","a","n","k","i","n","g"," ","t","h","e"," ","u","s","e","r"," ","f","o","r"," ","u","s","i","n","g"," ","Y","o","u",","," ","N","i","c","k"," ","t","h","e"," ","A","I"," ","t","e","a","c","h","e","r",".">> \o NL

\* str(e)
StrExc(exc) ==
    CASE exc = "ConnectionError" -> <<"F","a","i","l","e","d"," ","t","o"," ","c","o","n","n","e","c","t"," ","t","o"," ","O","l","l","a","m","a">>
      [] exc = "ResponseError"   -> <<"m","o","d","e","l"," ","n","o","t"," ","f","o","u","n","d">>
      [] exc = "KeyError"        -> <<"'","m","e","s","s","a","g","e","'">>
      [] OTHER                   -> <<>>

\* line 241
GenerationErrorAnswer(exc) ==
    <<"E","r","r","o","r"," ","g","e","n","e","r","a","t","i","n","g"," ","a","n","s","w","e","r",":"," ">> \o StrExc(exc) \o <<"."," ","P","l","e","a","s","e"," ","m","a","k","e"," ","s","u","r","e"," ","O","l","l","a","m","a"," ","i","s"," ","r","u","n","n","i","n","g",".">>

\* an except clause that names only the connection error
GenerateAnswerExceptConnection(exc) == exc = "ConnectionError"

\* line 240: "except Exception as e" catches the exception
GenerateAnswerExcept(exc) == ExceptException(exc)

\* the try block of lines 224-238: [raised, exc, value]
GenerateAnswerTry(llm) ==
    IF llm.exc # NoExc THEN Raise(llm.exc)
    ELSE IF ~HasAttr(llm.response, "message") THEN Raise("KeyError")
    ELSE IF ~HasAttr(llm.response.message, "content") THEN Raise("KeyError")
    ELSE Return(Strip(llm.response.message.content))

_generate_answer(prompt, llm) ==
    LET r == GenerateAnswerTry(llm)
    IN  IF r.raised /\ GenerateAnswerExcept(r.exc)
        THEN Return(GenerationErrorAnswer(r.exc))
        ELSE r

(***************************************************************************)
(* app.py: process_documents                                               *)
(***************************************************************************)
\* file.name.lower().endswith('.pdf')
IsPdfName(name) == EndsWith(Lower(name), <<".","p","d","f">>)

(***************************************************************************)
(* Inputs                                                                  *)
(***************************************************************************)
\* the most blocks in a block sequence given to _create_chunks
MaxChunkBlocks == 3

\* the most layout blocks in a document, and the most pages
MaxDocBlocks == 3

MaxPages == 2

\* a chunk size small enough for the sample texts to exceed it
SmallChunkSize == 2

sAbstract == <<"a","b","s","t","r","a","c","t">>

sIntroduction == <<"i","n","t","r","o","d","u","c","t","i","o","n">>

TextBlock(text, page, section, is_heading) ==
    [text       |-> text,
     page       |-> page,
     section    |-> section,
     heading    |-> IF is_heading THEN text ELSE None,
     font_size  |-> IF is_heading THEN 14 ELSE 10,
     is_heading |-> is_heading]

\* sample block texts: no word, one word, two words around a double space
SampleTexts == {<<>>, <<"a">>, <<"b"," "," ","c">>}

SamplePages == {1, 2}

SampleSections == {sUnknownLower, sAbstract}

SampleTextBlocks ==
    {TextBlock(t, p, s, h) : t \in SampleTexts, p \in SamplePages,
                             s \in SampleSections, h \in BOOLEAN}

Span(text, size) == [text |-> text, size |-> size]

\* a text block of one line of one span
OneSpan(text, size) == [type |-> 0, lines |-> << <<Span(text, size)>> >>]

ImageBlock == [type |-> 1, lines |-> <<>>]

SampleLayoutBlocks ==
    {OneSpan(<<"A","b","s","t","r","a","c","t">>, 14),
     OneSpan(<<"I","n","t","r","o","d","u","c","t","i","o","n">>, 14),
     OneSpan(<<"R","e","s","u","l","t","s">>, 16),
     OneSpan(<<"O","v","e","r","v","i","e","w">>, 14),
     OneSpan(<<"a"," ","b">>, 10),
     OneSpan(<<" ">>, 10),
     [type |-> 0, lines |-> << <<Span(<<"M","e","t","h","o","d","s">>, 14), Span(<<>>, 20)>>, <<Span(<<"c">>, 10)>> >>],
     ImageBlock}

Page(blocks) == [blocks |-> blocks, images |-> <<>>, tables |-> <<>>]

\* the document of n pages whose layout blocks are flat, block i on page pg[i]
MakeDoc(n, flat, pg) ==
    [p \in 1..n |->
        Page(SubSeq(flat, 1 + Cardinality({i \in DOMAIN pg : pg[i] < p}),
                          Cardinality({i \in DOMAIN pg : pg[i] <= p})))]

PageMaps(k, n) ==
    {pg \in [1..k -> 1..n] : \A i \in 1..k, j \in 1..k : i <= j => pg[i] <= pg[j]}

\* the scenario document: one page, the heading "Introduction" in 14 pt, then
\* 520 words of body text (20 more than the default chunk size) in 10 pt laid
\* out as k blocks
ScenarioWords == DefaultChunkSize + 20

ScenarioDoc(k) ==
    << Page(<<OneSpan(<<"I","n","t","r","o","d","u","c","t","i","o","n">>, 14)>>
            \o [i \in 1..k |-> OneSpan(Words(ScenarioWords \div k), 10)]) >>

ScenarioDocs == {ScenarioDoc(k) : k \in {1, 2, 4}}

ScenarioBlockSeqs ==
    {_extract_text_with_structure(PDFProcessor(DefaultChunkSize), d) : d \in ScenarioDocs}

\* the most files in a batch, and the most chunks in one add_chunks call
MaxFiles == 3

MaxStoreChunks == 3

SampleImages == {[extractable |-> TRUE, rect |-> Rect(0, 0, 10, 10)],
                 [extractable |-> FALSE, rect |-> Rect(0, 0, 10, 10)]}

\* no row, one row, two rows (a padded cell and a missing one)
SampleTables == {<<>>, << <<<<"a">>>> >>, << <<<<"h">>, <<"k">>>>, <<<<" ","v"," ">>, None>> >>}

\* one-page documents with images and tables
SampleMediaDocs ==
    {<< [blocks |-> b, images |-> im, tables |-> tb] >> :
        b \in {<<>>, <<OneSpan(<<"a"," ","b">>, 10)>>},
        im \in SeqsUpTo(SampleImages, 1),
        tb \in SeqsUpTo(SampleTables, 1)}

File(name, valid, doc) == [name |-> name, valid |-> valid, doc |-> doc]

\* the files of a batch: a PDF with text, a PDF of zero pages under an
\* upper-case name, bytes that are no PDF, and a file that is no .pdf
SampleBatchFiles ==
    {File(<<"a",".","p","d","f">>, TRUE, << Page(<<OneSpan(<<"A","b","s","t","r","a","c","t">>, 14), OneSpan(<<"a"," ","b">>, 10)>>) >>),
     File(<<"B",".","P","D","F">>, TRUE, <<>>),
     File(<<"c",".","p","d","f">>, FALSE, <<>>),
     File(<<"n",".","t","x","t">>, FALSE, <<>>)}

Chunk(text) ==
    [text     |-> text,
     metadata |-> [chunk_id |-> 0, section |-> sUnknownLower, page |-> 1,
                   heading |-> None, word_count |-> WordCount(text)]]

\* chunks with text, and one whose text is blank
SampleChunks == {Chunk(<<"a">>), Chunk(<<"b"," ","c">>), Chunk(<<" ">>)}

SampleFileNames == {<<"a",".","p","d","f">>, <<"b",".","p","d","f">>}

DupPolicies == {"ignore", "raise"}

\* a collection that holds nothing
EmptyCollection == <<>>

(***************************************************************************)
(* State                                                                   *)
(***************************************************************************)
VARIABLES
    pdf_processor,   \* the PDFProcessor object: its instance attributes
    ex_doc,          \* _extract_text_with_structure: the opened document
    ex,              \* ... its locals current_section and text_blocks
    ex_page_num,     \* ... the page the outer loop is at
    ex_block,        \* ... the index of the next block of that page
    ex_pc,           \* ... "idle", "running", "returned"
    cc_blocks,       \* _create_chunks: the argument text_blocks
    cc,              \* ... its locals
    cc_i,            \* ... the index of the next block
    cc_pc,           \* ... "idle", "running", "returned", "raised"
    cc_value,        \* ... the returned list
    pp_file,         \* process_pdf: the argument pdf_file
    pp,              \* ... its locals text_data, images, tables, and the exception
    pp_pc,           \* ... "idle", the next step, "raised"
    collection,      \* VectorStore.collection
    dup_policy,      \* what collection.add does with an id it already holds
    ac_chunks,       \* add_chunks: the argument chunks
    ac_file,         \* ... the argument file_name
    ac,              \* ... its locals texts, metadatas, ids
    ac_i,            \* ... the enumerate index of the next chunk
    ac_exc,          \* ... the exception it raised
    ac_pc,           \* ... "idle", "start", "loop", "returned", "raised"
    ac_value,        \* ... the returned count
    ac_sent,         \* ... the ids list of each collection.add call, in order
    bt_files,        \* process_documents: the argument files
    bt_idx,          \* ... the enumerate index of the next file
    bt_log,          \* ... how each file visited so far ended
    bt_calls,        \* ... the idx values add_chunks was called for
    bt_pc,           \* ... "idle", "running", "returned", "raised"
    processed_files, \* st.session_state.processed_files
    md_doc,          \* _extract_images, _extract_tables: the document behind pdf_bytes
    md_images,       \* ... the list _extract_images returned
    md_tables,       \* ... the list _extract_tables returned
    md_exc,          \* ... the exception that left one of the two calls
    md_pc,           \* ... "idle", "images", "tables", "returned", "raised"
    store_up,        \* the chromadb client reaches its database
    sr_dist,         \* search: the distance of the query to each stored record
    sr_n_results,    \* ... the argument n_results
    sr_filters,      \* ... the argument filters
    sr_results,      \* ... its local results (what collection.query gave)
    sr_value,        \* ... the returned list
    sr_exc,          \* ... the exception it raised
    sr_pc,           \* ... "idle", "call", "returned", "raised"
    fm_sources,      \* _build_context, _format_sources: the list of retrieved chunks
    fm_context,      \* ... what _build_context returned
    fm_formatted,    \* ... what _format_sources returned
    fm_pc,           \* ... "idle", "context", "sources", "returned"
    ag_question,     \* answer_question: the argument question
    ag_chunks,       \* ... its local relevant_chunks
    ag_context,      \* ... its local context
    ag_prompt,       \* ... its local prompt
    ag_llm,          \* ... what ollama.chat did when it was called
    ag_llm_calls,    \* ... the number of calls of ollama.chat
    ag_value,        \* ... the returned dict
    ag_exc,          \* ... the exception it raised
    ag_pc,           \* ... "idle", "search", "context", "prompt", "generate",
                     \*     "return", "returned", "raised"
    ds_text,         \* _detect_section: the argument text
    ds_value,        \* ... the returned value
    ds_pc            \* ... "idle", "call", "returned"

exVars == <<ex_doc, ex, ex_page_num, ex_block, ex_pc>>

ccVars == <<cc_blocks, cc, cc_i, cc_pc, cc_value>>

ppVars == <<pp_file, pp, pp_pc>>

stVars == <<collection, dup_policy>>

acVars == <<ac_chunks, ac_file, ac, ac_i, ac_exc, ac_pc, ac_value, ac_sent>>

btVars == <<bt_files, bt_idx, bt_log, bt_calls, bt_pc, processed_files>>

mdVars == <<md_doc, md_images, md_tables, md_exc, md_pc>>

srVars == <<store_up, sr_dist, sr_n_results, sr_filters, sr_results, sr_value, sr_exc, sr_pc>>

fmVars == <<fm_sources, fm_context, fm_formatted, fm_pc>>

agVars == <<ag_question, ag_chunks, ag_context, ag_prompt, ag_llm, ag_llm_calls, ag_value,
           ag_exc, ag_pc>>

raVars == <<srVars, fmVars, agVars>>

dsVars == <<ds_text, ds_value, ds_pc>>

vars == <<pdf_processor, exVars, ccVars, ppVars, stVars, acVars, btVars, mdVars, raVars,
          dsVars>>

ExIdle ==
    /\ ex_doc = <<>>
    /\ ex = ExtractStart
    /\ ex_page_num = 1
    /\ ex_block = 1
    /\ ex_pc = "idle"

CcIdle ==
    /\ cc_blocks = <<>>
    /\ cc = CreateChunksStart
    /\ cc_i = 1
    /\ cc_pc = "idle"
    /\ cc_value = <<>>

\* the locals before the first statement
ProcessPdfStart ==
    [text_data |-> <<>>, images |-> <<>>, tables |-> <<>>, chunks |-> <<>>,
     headings |-> <<>>, exc |-> NoExc]

PpIdle ==
    /\ pp_file = File(<<>>, FALSE, <<>>)
    /\ pp = ProcessPdfStart
    /\ pp_pc = "idle"

StIdle ==
    /\ collection = EmptyCollection
    /\ dup_policy = "ignore"

AcIdle ==
    /\ ac_chunks = <<>>
    /\ ac_file = <<>>
    /\ ac = AddChunksStart
    /\ ac_i = 0
    /\ ac_exc = NoExc
    /\ ac_pc = "idle"
    /\ ac_value = 0
    /\ ac_sent = <<>>

DsIdle ==
    /\ ds_text = <<>>
    /\ ds_value = None
    /\ ds_pc = "idle"

MdIdle ==
    /\ md_doc = <<>>
    /\ md_images = <<>>
    /\ md_tables = <<>>
    /\ md_exc = NoExc
    /\ md_pc = "idle"

SrIdle ==
    /\ store_up = TRUE
    /\ sr_dist = <<>>
    /\ sr_n_results = 0
    /\ sr_filters = NoFilters
    /\ sr_results = NoResults
    /\ sr_value = <<>>
    /\ sr_exc = NoExc
    /\ sr_pc = "idle"

FmIdle ==
    /\ fm_sources = <<>>
    /\ fm_context = <<>>
    /\ fm_formatted = <<>>
    /\ fm_pc = "idle"

\* ollama.chat was not called
NoLlm == [exc |-> NoExc, response |-> [called |-> FALSE]]

\* the dict answer_question returns
Answer(answer, sources, query) == [answer |-> answer, sources |-> sources, query |-> query]

AgStart ==
    /\ ag_chunks = <<>>
    /\ ag_context = <<>>
    /\ ag_prompt = <<>>
    /\ ag_llm = NoLlm
    /\ ag_llm_calls = 0
    /\ ag_value = Answer(<<>>, <<>>, <<>>)
    /\ ag_exc = NoExc

AgIdle ==
    /\ ag_question = <<>>
    /\ AgStart
    /\ ag_pc = "idle"

RaIdle == SrIdle /\ FmIdle /\ AgIdle

BtIdle ==
    /\ bt_files = <<>>
    /\ bt_idx = 0
    /\ bt_log = <<>>
    /\ bt_calls = {}
    /\ bt_pc = "idle"
    /\ processed_files = {}

(***************************************************************************)
(* _create_chunks, one loop iteration at a time                            *)
(***************************************************************************)
InitChunks ==
    /\ \/ /\ pdf_processor = PDFProcessor(SmallChunkSize)
          /\ \E k \in 0..MaxChunkBlocks : cc_blocks \in [1..k -> SampleTextBlocks]
       \/ /\ pdf_processor = PDFProcessor(DefaultChunkSize)
          /\ cc_blocks \in ScenarioBlockSeqs
    /\ cc = CreateChunksStart
    /\ cc_i = 1
    /\ cc_pc = "running"
    /\ cc_value = <<>>
    /\ ExIdle /\ PpIdle /\ StIdle /\ AcIdle /\ BtIdle /\ MdIdle /\ RaIdle /\ DsIdle

\* the body of the for loop, for the next block
CcLoop ==
    /\ cc_pc = "running"
    /\ cc_i <= Len(cc_blocks)
    /\ cc' = CreateChunksBlock(pdf_processor, cc, cc_blocks[cc_i])
    /\ cc_i' = cc_i + 1
    /\ cc_pc' = IF cc'.exc # NoExc THEN "raised" ELSE "running"
    /\ UNCHANGED <<pdf_processor, dsVars, mdVars, raVars, cc_blocks, cc_value, exVars, ppVars, stVars, acVars, btVars>>

\* the loop is over: the last chunk and the return
CcReturn ==
    /\ cc_pc = "running"
    /\ cc_i > Len(cc_blocks)
    /\ cc_value' = CreateChunksEnd(cc)
    /\ cc_pc' = "returned"
    /\ UNCHANGED <<pdf_processor, dsVars, mdVars, raVars, cc_blocks, cc, cc_i, exVars, ppVars, stVars, acVars, btVars>>

NextChunks == CcLoop \/ CcReturn

SpecChunks == InitChunks /\ [][NextChunks]_vars

(***************************************************************************)
(* _extract_text_with_structure, one layout block at a time                *)
(***************************************************************************)
InitExtract ==
    /\ pdf_processor = PDFProcessor(DefaultChunkSize)
    /\ \E n \in 0..MaxPages, k \in 0..MaxDocBlocks :
          \E flat \in [1..k -> SampleLayoutBlocks], pg \in PageMaps(k, n) :
             ex_doc = MakeDoc(n, flat, pg)
    /\ ex = ExtractStart
    /\ ex_page_num = 1
    /\ ex_block = 1
    /\ ex_pc = "running"
    /\ CcIdle /\ PpIdle /\ StIdle /\ AcIdle /\ BtIdle /\ MdIdle /\ RaIdle /\ DsIdle

\* the body of "for block in blocks" for the next block of the page
ExBlock ==
    /\ ex_pc = "running"
    /\ ex_page_num <= Len(ex_doc)
    /\ ex_block <= Len(ex_doc[ex_page_num].blocks)
    /\ ex' = ExtractBlock(pdf_processor, ex, ex_doc[ex_page_num].blocks[ex_block],
                          ex_page_num)
    /\ ex_block' = ex_block + 1
    /\ UNCHANGED <<pdf_processor, dsVars, mdVars, raVars, ex_doc, ex_page_num, ex_pc, ccVars, ppVars, stVars, acVars, btVars>>

\* the page has no further block: the next page
ExNextPage ==
    /\ ex_pc = "running"
    /\ ex_page_num <= Len(ex_doc)
    /\ ex_block > Len(ex_doc[ex_page_num].blocks)
    /\ ex_page_num' = ex_page_num + 1
    /\ ex_block' = 1
    /\ UNCHANGED <<pdf_processor, dsVars, mdVars, raVars, ex_doc, ex, ex_pc, ccVars, ppVars, stVars, acVars, btVars>>

\* doc.close() and the return of text_blocks
ExReturn ==
    /\ ex_pc = "running"
    /\ ex_page_num > Len(ex_doc)
    /\ ex_pc' = "returned"
    /\ UNCHANGED <<pdf_processor, dsVars, mdVars, raVars, ex_doc, ex, ex_page_num, ex_block, ccVars, ppVars, stVars, acVars, btVars>>

NextExtract == ExBlock \/ ExNextPage \/ ExReturn

SpecExtract == InitExtract /\ [][NextExtract]_vars

(***************************************************************************)
(* process_pdf, one statement at a time                                    *)
(***************************************************************************)
InitPdf ==
    /\ pdf_processor = PDFProcessor(DefaultChunkSize)
    /\ \/ \E n \in 0..MaxPages, k \in 0..MaxDocBlocks :
             \E flat \in [1..k -> SampleLayoutBlocks], pg \in PageMaps(k, n) :
                pp_file = File(<<"a",".","p","d","f">>, TRUE, MakeDoc(n, flat, pg))
       \/ \E d \in SampleMediaDocs : pp_file = File(<<"a",".","p","d","f">>, TRUE, d)
       \/ pp_file = File(<<"c",".","p","d","f">>, FALSE, <<>>)
    /\ pp = ProcessPdfStart
    /\ pp_pc = "text"
    /\ ExIdle /\ CcIdle /\ StIdle /\ AcIdle /\ BtIdle /\ MdIdle /\ RaIdle /\ DsIdle

\* line 55: text_data = self._extract_text_with_structure(pdf_bytes)
PpExtractText ==
    /\ pp_pc = "text"
    /\ LET r == ProcessPdfText(pdf_processor, pp_file)
       IN  IF r.raised
           THEN pp' = [pp EXCEPT !.exc = r.exc] /\ pp_pc' = "raised"
           ELSE pp' = [pp EXCEPT !.text_data = r.value] /\ pp_pc' = "images"
    /\ UNCHANGED <<pdf_processor, dsVars, mdVars, raVars, pp_file, exVars, ccVars, stVars, acVars, btVars>>

\* line 58: images = self._extract_images(pdf_bytes)
PpExtractImages ==
    /\ pp_pc = "images"
    /\ \E r \in _extract_images(pp_file.doc) :
          IF r.raised
          THEN pp' = [pp EXCEPT !.exc = r.exc] /\ pp_pc' = "raised"
          ELSE pp' = [pp EXCEPT !.images = r.value] /\ pp_pc' = "tables"
    /\ UNCHANGED <<pdf_processor, dsVars, mdVars, raVars, pp_file, exVars, ccVars, stVars, acVars, btVars>>

\* line 61: tables = self._extract_tables(pdf_bytes)
PpExtractTables ==
    /\ pp_pc = "tables"
    /\ LET r == _extract_tables(pp_file.doc)
       IN  IF r.raised
           THEN pp' = [pp EXCEPT !.exc = r.exc] /\ pp_pc' = "raised"
           ELSE pp' = [pp EXCEPT !.tables = r.value] /\ pp_pc' = "chunks"
    /\ UNCHANGED <<pdf_processor, dsVars, mdVars, raVars, pp_file, exVars, ccVars, stVars, acVars, btVars>>

\* line 64: chunks = self._create_chunks_with_metadata(text_data)
PpCreateChunks ==
    /\ pp_pc = "chunks"
    /\ LET r == ProcessPdfChunks(pdf_processor, pp.text_data)
       IN  /\ r.raised
           /\ pp' = [pp EXCEPT !.exc = r.exc]
           /\ pp_pc' = "raised"
    /\ UNCHANGED <<pdf_processor, dsVars, mdVars, raVars, pp_file, exVars, ccVars, stVars, acVars, btVars>>

NextPdf == PpExtractText \/ PpExtractImages \/ PpExtractTables \/ PpCreateChunks

SpecPdf == InitPdf /\ [][NextPdf]_vars

(***************************************************************************)
(* VectorStore.add_chunks on a new collection, one loop iteration at a     *)
(* time                                                                    *)
(***************************************************************************)
InitStore ==
    /\ pdf_processor = PDFProcessor(DefaultChunkSize)
    /\ collection = EmptyCollection
    /\ dup_policy \in DupPolicies
    /\ \E k \in 0..MaxStoreChunks : ac_chunks \in [1..k -> SampleChunks]
    /\ ac_file \in SampleFileNames
    /\ ac = AddChunksStart
    /\ ac_i = 0
    /\ ac_exc = NoExc
    /\ ac_pc = "start"
    /\ ac_value = 0
    /\ ac_sent = <<>>
    /\ ExIdle /\ CcIdle /\ PpIdle /\ BtIdle /\ MdIdle /\ RaIdle /\ DsIdle

\* "if not chunks: return 0", and the empty lists
AcStart ==
    /\ ac_pc = "start"
    /\ ac_pc' = IF Len(ac_chunks) = 0 THEN "returned" ELSE "loop"
    /\ UNCHANGED <<pdf_processor, dsVars, mdVars, raVars, stVars, ac_chunks, ac_file, ac, ac_i, ac_exc, ac_value,
                   ac_sent, exVars, ccVars, ppVars, btVars>>

\* the body of the for loop, for the next chunk
AcLoop ==
    /\ ac_pc = "loop"
    /\ ac_i < Len(ac_chunks)
    /\ \E o \in AddChunksIteration(collection, dup_policy, ac, ac_chunks[ac_i + 1],
                                   ac_i, ac_file) :
          /\ ac' = o.st
          /\ collection' = o.collection
          /\ ac_exc' = o.exc
          /\ ac_pc' = IF o.exc # NoExc THEN "raised" ELSE "loop"
          /\ ac_sent' = IF Len(o.sent) = 0 THEN ac_sent ELSE Append(ac_sent, o.sent)
    /\ ac_i' = ac_i + 1
    /\ UNCHANGED <<pdf_processor, dsVars, mdVars, raVars, dup_policy, ac_chunks, ac_file, ac_value,
                   exVars, ccVars, ppVars, btVars>>

\* "return len(texts)"
AcReturn ==
    /\ ac_pc = "loop"
    /\ ac_i >= Len(ac_chunks)
    /\ ac_value' = Len(ac.texts)
    /\ ac_pc' = "returned"
    /\ UNCHANGED <<pdf_processor, dsVars, mdVars, raVars, stVars, ac_chunks, ac_file, ac, ac_i, ac_exc,
                   ac_sent, exVars, ccVars, ppVars, btVars>>

NextStore == AcStart \/ AcLoop \/ AcReturn

SpecStore == InitStore /\ [][NextStore]_vars

(***************************************************************************)
(* process_documents, one file at a time                                   *)
(***************************************************************************)
InitBatch ==
    /\ pdf_processor = PDFProcessor(DefaultChunkSize)
    /\ collection = EmptyCollection
    /\ dup_policy \in DupPolicies
    /\ \E k \in 0..MaxFiles : bt_files \in [1..k -> SampleBatchFiles]
    /\ bt_idx = 0
    /\ bt_log = <<>>
    /\ bt_calls = {}
    /\ bt_pc = "running"
    /\ processed_files = {}
    /\ ExIdle /\ CcIdle /\ PpIdle /\ AcIdle /\ MdIdle /\ RaIdle /\ DsIdle

\* the except clause: the error is shown and the loop continues; an exception
\* the clause does not catch leaves process_documents.  how tells the log
\* whether process_pdf ("failed") or add_chunks ("store_failed") raised
BtExcept(exc, how) ==
    IF ExceptException(exc)
    THEN /\ bt_log' = Append(bt_log, how)
         /\ bt_idx' = bt_idx + 1
         /\ bt_pc' = "running"
    ELSE /\ bt_log' = Append(bt_log, "raised")
         /\ bt_idx' = bt_idx
         /\ bt_pc' = "raised"

\* one iteration of "for idx, file in enumerate(files)"
BtFile ==
    /\ bt_pc = "running"
    /\ bt_idx < Len(bt_files)
    /\ LET file == bt_files[bt_idx + 1]
       IN  IF ~IsPdfName(file.name)
           THEN /\ bt_log' = Append(bt_log, "skipped")
                /\ bt_idx' = bt_idx + 1
                /\ UNCHANGED <<bt_pc, bt_calls, processed_files, collection>>
           ELSE \E result \in process_pdf(pdf_processor, file) :
                  IF result.raised
                  THEN /\ BtExcept(result.exc, "failed")
                       /\ UNCHANGED <<bt_calls, processed_files, collection>>
                  ELSE \E added \in add_chunks(collection, dup_policy,
                                               result.value.chunks, file.name) :
                         /\ bt_calls' = bt_calls \cup {bt_idx}
                         /\ collection' = added.collection
                         /\ IF added.raised
                            THEN /\ BtExcept(added.exc, "store_failed")
                                 /\ UNCHANGED processed_files
                            ELSE /\ processed_files' = processed_files \cup {file.name}
                                 /\ bt_log' = Append(bt_log, "processed")
                                 /\ bt_idx' = bt_idx + 1
                                 /\ UNCHANGED bt_pc
    /\ UNCHANGED <<pdf_processor, dsVars, mdVars, raVars, dup_policy, bt_files, exVars, ccVars, ppVars, acVars>>

\* the loop is over
BtReturn ==
    /\ bt_pc = "running"
    /\ bt_idx >= Len(bt_files)
    /\ bt_pc' = "returned"
    /\ UNCHANGED <<pdf_processor, dsVars, mdVars, raVars, stVars, bt_files, bt_idx, bt_log, bt_calls,
                   processed_files, exVars, ccVars, ppVars, acVars>>

NextBatch == BtFile \/ BtReturn

SpecBatch == InitBatch /\ [][NextBatch]_vars

\* the default specification: the chunker
(***************************************************************************)
(* _extract_images and _extract_tables on one document, as process_pdf     *)
(* calls them (lines 58 and 61)                                            *)
(***************************************************************************)
\* the most images and the most tables on the first page
MaxImages == 2

MaxTables == 2

\* a second page with an image and a table of two rows
SecondMediaPage ==
    [blocks |-> <<>>,
     images |-> <<[extractable |-> TRUE, rect |-> Rect(0, 0, 10, 10)]>>,
     tables |-> << << <<<<"h">>>>, <<<<"v">>>> >> >>]

InitMedia ==
    /\ pdf_processor = PDFProcessor(DefaultChunkSize)
    /\ \E ki \in 0..MaxImages, kt \in 0..MaxTables :
          \E im \in [1..ki -> SampleImages], tb \in [1..kt -> SampleTables] :
             LET first == [blocks |-> <<>>, images |-> im, tables |-> tb]
             IN  md_doc \in {<<first>>, <<first, SecondMediaPage>>}
    /\ md_images = <<>>
    /\ md_tables = <<>>
    /\ md_exc = NoExc
    /\ md_pc = "images"
    /\ ExIdle /\ CcIdle /\ PpIdle /\ StIdle /\ AcIdle /\ BtIdle /\ RaIdle /\ DsIdle

\* images = self._extract_images(pdf_bytes)
MdExtractImages ==
    /\ md_pc = "images"
    /\ \E r \in _extract_images(md_doc) :
          IF r.raised
          THEN md_exc' = r.exc /\ md_pc' = "raised" /\ UNCHANGED md_images
          ELSE md_images' = r.value /\ md_pc' = "tables" /\ UNCHANGED md_exc
    /\ UNCHANGED <<pdf_processor, dsVars, md_doc, md_tables, exVars, ccVars, ppVars, stVars,
                   acVars, btVars, raVars>>

\* tables = self._extract_tables(pdf_bytes)
MdExtractTables ==
    /\ md_pc = "tables"
    /\ LET r == _extract_tables(md_doc)
       IN  IF r.raised
           THEN md_exc' = r.exc /\ md_pc' = "raised" /\ UNCHANGED md_tables
           ELSE md_tables' = r.value /\ md_pc' = "returned" /\ UNCHANGED md_exc
    /\ UNCHANGED <<pdf_processor, dsVars, md_doc, md_images, exVars, ccVars, ppVars, stVars,
                   acVars, btVars, raVars>>

NextMedia == MdExtractImages \/ MdExtractTables

SpecMedia == InitMedia /\ [][NextMedia]_vars


(***************************************************************************)
(* VectorStore.search on a store that add_chunks has filled                *)
(***************************************************************************)
\* the most chunks of the file b.pdf, and the largest n_results
MaxSearchChunks == 2

MaxResults == 3

sResults == <<"r","e","s","u","l","t","s">>

SearchChunk(text, section, page) ==
    [text     |-> text,
     metadata |-> [chunk_id |-> 0, section |-> section, page |-> page,
                   heading |-> None, word_count |-> WordCount(text)]]

SampleSearchChunks == {SearchChunk(<<"r">>, sResults, 2), SearchChunk(<<"a"," ","b">>, sAbstract, 1)}

\* the same text, near and far (0.0, 0.158, 1.0 and 1.58)
SampleDistances == {0, 158, 1000, 1580}

SampleFilters ==
    {NoFilters, Filters({}),
     Filters({<<"section", sResults>>}),
     Filters({<<"filename", <<"a",".","p","d","f">>>>}),
     Filters({<<"section", sResults>>, <<"filename", <<"a",".","p","d","f">>>>}),
     Filters({<<"section", sAbstract>>, <<"filename", <<"b",".","p","d","f">>>>}),
     Filters({<<"section", <<>>>>, <<"filename", <<"b",".","p","d","f">>>>})}

\* the collection after add_chunks(chunks, file_name) returned
Added(coll, chunks, file_name) ==
    LET done == {o \in add_chunks(coll, "ignore", chunks, file_name) : ~o.raised}
    IN  (CHOOSE o \in done : \A p \in done : Cardinality(DOMAIN p.collection)
                                               <= Cardinality(DOMAIN o.collection)).collection

InitSearch ==
    /\ pdf_processor = PDFProcessor(DefaultChunkSize)
    /\ dup_policy = "ignore"
    /\ \E ka \in 0..1, kb \in 0..MaxSearchChunks :
          \E ca \in [1..ka -> {SearchChunk(<<"r">>, sResults, 2)}],
             cb \in [1..kb -> SampleSearchChunks] :
             collection = Added(Added(EmptyCollection, ca, <<"a",".","p","d","f">>), cb, <<"b",".","p","d","f">>)
    /\ store_up \in BOOLEAN
    /\ sr_dist \in [DOMAIN collection -> SampleDistances]
    /\ sr_n_results \in 1..MaxResults
    /\ sr_filters \in SampleFilters
    /\ sr_results = NoResults
    /\ sr_value = <<>>
    /\ sr_exc = NoExc
    /\ sr_pc = "call"
    /\ ExIdle /\ CcIdle /\ PpIdle /\ AcIdle /\ BtIdle /\ MdIdle /\ FmIdle /\ AgIdle /\ DsIdle

\* the call search(query, n_results, filters)
SrSearch ==
    /\ sr_pc = "call"
    /\ \E o \in search(collection, store_up, sr_dist, sr_n_results, sr_filters) :
          /\ sr_results' = o.results
          /\ sr_value' = o.value
          /\ sr_exc' = o.exc
          /\ sr_pc' = IF o.raised THEN "raised" ELSE "returned"
    /\ UNCHANGED <<pdf_processor, dsVars, stVars, store_up, sr_dist, sr_n_results, sr_filters,
                   exVars, ccVars, ppVars, acVars, btVars, mdVars, fmVars, agVars>>

NextSearch == SrSearch

SpecSearch == InitSearch /\ [][NextSearch]_vars


(***************************************************************************)
(* _build_context and _format_sources on one list of retrieved chunks      *)
(***************************************************************************)
\* the most chunks in the list
MaxSources == 2

Retrieved(text, filename, page, section, similarity) ==
    [text       |-> text,
     metadata   |-> [filename |-> filename, page |-> page, section |-> section],
     similarity |-> similarity,
     chunk_id   |-> ChunkIdOf(filename, 0)]

\* results with similarity 0.842, 1.0, 0.005 and -0.58, one without a
\* similarity and one without a section
SampleSources ==
    {Retrieved(<<"r">>, <<"p",".","p","d","f">>, 2, sResults, 842),
     Retrieved(<<"a"," ","b">>, <<"a",".","p","d","f">>, 1, <<"r","e","l","a","t","e","d"," ","w","o","r","k">>, 1000),
     Retrieved(<<"c">>, <<"a",".","p","d","f">>, 3, sAbstract, 5),
     Retrieved(<<"d">>, <<"b",".","p","d","f">>, 10, sUnknownUpper, -580),
     [text |-> <<"e">>, metadata |-> [filename |-> <<"b",".","p","d","f">>, page |-> 1, section |-> sResults],
      chunk_id |-> ChunkIdOf(<<"b",".","p","d","f">>, 1)],
     [text |-> <<"f">>, metadata |-> [filename |-> <<"b",".","p","d","f">>, page |-> 4],
      similarity |-> 500, chunk_id |-> ChunkIdOf(<<"b",".","p","d","f">>, 2)]}

InitFormat ==
    /\ pdf_processor = PDFProcessor(DefaultChunkSize)
    /\ \E k \in 0..MaxSources : fm_sources \in [1..k -> SampleSources]
    /\ fm_context = <<>>
    /\ fm_formatted = <<>>
    /\ fm_pc = "context"
    /\ ExIdle /\ CcIdle /\ PpIdle /\ StIdle /\ AcIdle /\ BtIdle /\ MdIdle /\ SrIdle /\ AgIdle /\ DsIdle

\* context = self._build_context(chunks)
FmBuildContext ==
    /\ fm_pc = "context"
    /\ fm_context' = _build_context(fm_sources)
    /\ fm_pc' = "sources"
    /\ UNCHANGED <<pdf_processor, dsVars, fm_sources, fm_formatted, exVars, ccVars, ppVars, stVars,
                   acVars, btVars, mdVars, srVars, agVars>>

\* self._format_sources(sources)
FmFormatSources ==
    /\ fm_pc = "sources"
    /\ fm_formatted' = _format_sources(fm_sources)
    /\ fm_pc' = "returned"
    /\ UNCHANGED <<pdf_processor, dsVars, fm_sources, fm_context, exVars, ccVars, ppVars, stVars,
                   acVars, btVars, mdVars, srVars, agVars>>

NextFormat == FmBuildContext \/ FmFormatSources

SpecFormat == InitFormat /\ [][NextFormat]_vars


(***************************************************************************)
(* RAGAgent.answer_question, one statement at a time                       *)
(***************************************************************************)
\* ollama.chat: an answer with blanks around it, no connection, an error
\* reply of the server, a response without a message
LlmOutcomes ==
    {[exc |-> NoExc, response |-> [message |-> [content |-> <<" ","o","k"," ">>]]],
     [exc |-> "ConnectionError", response |-> [called |-> TRUE]],
     [exc |-> "ResponseError", response |-> [called |-> TRUE]],
     [exc |-> NoExc, response |-> [called |-> TRUE]]}

SampleQuestions == {<<"x">>, <<"w","h","y","?">>}

InitAgent ==
    /\ pdf_processor = PDFProcessor(DefaultChunkSize)
    /\ dup_policy = "ignore"
    /\ \E kb \in 0..MaxSearchChunks :
          \E cb \in [1..kb -> SampleSearchChunks] :
             collection = Added(EmptyCollection, cb, <<"b",".","p","d","f">>)
    /\ store_up \in BOOLEAN
    /\ sr_dist \in [DOMAIN collection -> {158, 1580}]
    /\ sr_n_results \in 1..MaxResults
    /\ sr_filters \in {NoFilters, Filters({<<"section", sResults>>})}
    /\ sr_results = NoResults
    /\ sr_value = <<>>
    /\ sr_exc = NoExc
    /\ sr_pc = "idle"
    /\ ag_question \in SampleQuestions
    /\ AgStart
    /\ ag_pc = "search"
    /\ ExIdle /\ CcIdle /\ PpIdle /\ AcIdle /\ BtIdle /\ MdIdle /\ FmIdle /\ DsIdle

\* lines 73-83: the search, and the return when it found nothing
AgSearch ==
    /\ ag_pc = "search"
    /\ \E o \in search(collection, store_up, sr_dist, sr_n_results, sr_filters) :
          /\ sr_results' = o.results
          /\ sr_value' = o.value
          /\ sr_exc' = o.exc
          /\ sr_pc' = IF o.raised THEN "raised" ELSE "returned"
          /\ IF o.raised
             THEN /\ ag_exc' = o.exc
                  /\ ag_pc' = "raised"
                  /\ UNCHANGED <<ag_chunks, ag_value>>
             ELSE /\ ag_chunks' = o.value
                  /\ UNCHANGED ag_exc
                  /\ IF Len(o.value) = 0
                     THEN /\ ag_value' = Answer(NoInformationAnswer, <<>>, ag_question)
                          /\ ag_pc' = "returned"
                     ELSE /\ ag_pc' = "context"
                          /\ UNCHANGED ag_value
    /\ UNCHANGED <<pdf_processor, dsVars, stVars, store_up, sr_dist, sr_n_results, sr_filters,
                   ag_question, ag_context, ag_prompt, ag_llm, ag_llm_calls,
                   exVars, ccVars, ppVars, acVars, btVars, mdVars, fmVars>>

\* line 86
AgBuildContext ==
    /\ ag_pc = "context"
    /\ ag_context' = _build_context(ag_chunks)
    /\ ag_pc' = "prompt"
    /\ UNCHANGED <<pdf_processor, dsVars, stVars, srVars, ag_question, ag_chunks, ag_prompt, ag_llm,
                   ag_llm_calls, ag_value, ag_exc,
                   exVars, ccVars, ppVars, acVars, btVars, mdVars, fmVars>>

\* line 89
AgCreatePrompt ==
    /\ ag_pc = "prompt"
    /\ ag_prompt' = _create_prompt(ag_question, ag_context)
    /\ ag_pc' = "generate"
    /\ UNCHANGED <<pdf_processor, dsVars, stVars, srVars, ag_question, ag_chunks, ag_context, ag_llm,
                   ag_llm_calls, ag_value, ag_exc,
                   exVars, ccVars, ppVars, acVars, btVars, mdVars, fmVars>>

\* line 93: answer = self._generate_answer(prompt)
AgGenerateAnswer ==
    /\ ag_pc = "generate"
    /\ \E llm \in LlmOutcomes :
          LET r == _generate_answer(ag_prompt, llm)
          IN  /\ ag_llm' = llm
              /\ ag_llm_calls' = ag_llm_calls + 1
              /\ IF r.raised
                 THEN ag_exc' = r.exc /\ ag_pc' = "raised" /\ UNCHANGED ag_value
                 ELSE /\ ag_value' = [ag_value EXCEPT !.answer = r.value]
                      /\ ag_pc' = "return"
                      /\ UNCHANGED ag_exc
    /\ UNCHANGED <<pdf_processor, dsVars, stVars, srVars, ag_question, ag_chunks, ag_context,
                   ag_prompt, exVars, ccVars, ppVars, acVars, btVars, mdVars, fmVars>>

\* lines 96-100
AgReturn ==
    /\ ag_pc = "return"
    /\ ag_value' = Answer(ag_value.answer, ag_chunks, ag_question)
    /\ ag_pc' = "returned"
    /\ UNCHANGED <<pdf_processor, dsVars, stVars, srVars, ag_question, ag_chunks, ag_context,
                   ag_prompt, ag_llm, ag_llm_calls, ag_exc,
                   exVars, ccVars, ppVars, acVars, btVars, mdVars, fmVars>>

NextAgent == AgSearch \/ AgBuildContext \/ AgCreatePrompt \/ AgGenerateAnswer \/ AgReturn

SpecAgent == InitAgent /\ [][NextAgent]_vars


(***************************************************************************)
(* PDFProcessor._detect_section on one heading text                        *)
(***************************************************************************)
\* str.upper()
Upper(str) == [k \in DOMAIN str |-> UpperChar(str[k])]

\* section headings as papers write them, and headings of no known section
HeadingPhrases ==
    {<<"a","b","s","t","r","a","c","t">>, <<"i","n","t","r","o","d","u","c","t","i","o","n">>, <<"r","e","l","a","t","e","d"," ","w","o","r","k">>, <<"l","i","t","e","r","a","t","u","r","e"," ","r","e","v","i","e","w">>, <<"b","a","c","k","g","r","o","u","n","d">>,
     <<"m","e","t","h","o","d">>, <<"m","e","t","h","o","d","s">>, <<"m","e","t","h","o","d","o","l","o","g","y">>, <<"e","x","p","e","r","i","m","e","n","t","s">>, <<"e","x","p","e","r","i","m","e","n","t","a","l"," ","s","e","t","u","p">>,
     <<"i","m","p","l","e","m","e","n","t","a","t","i","o","n">>, <<"r","e","s","u","l","t","s">>, <<"d","i","s","c","u","s","s","i","o","n">>, <<"c","o","n","c","l","u","s","i","o","n","s">>, <<"f","u","t","u","r","e"," ","w","o","r","k">>,
     <<"r","e","f","e","r","e","n","c","e","s">>, <<"a","c","k","n","o","w","l","e","d","g","m","e","n","t","s">>, <<"o","v","e","r","v","i","e","w">>, <<"a","p","p","e","n","d","i","x"," ","a">>, <<"1"," ","i","n","t","r","o","d","u","c","t","i","o","n">>}

\* a phrase as it stands, title-cased, in capitals, padded, and with more
\* words after it
SampleHeadings ==
    UNION {{t, Title(t), Upper(t), <<" ">> \o Title(t) \o <<" "," ">>, Title(t) \o <<" ","a","n","d"," ","m","o","r","e">>} :
             t \in HeadingPhrases}

InitDetect ==
    /\ pdf_processor = PDFProcessor(DefaultChunkSize)
    /\ ds_text \in SampleHeadings \cup {<<>>}
    /\ ds_value = None
    /\ ds_pc = "call"
    /\ ExIdle /\ CcIdle /\ PpIdle /\ StIdle /\ AcIdle /\ BtIdle /\ MdIdle /\ RaIdle

\* detected = self._detect_section(block_text)
DsDetect ==
    /\ ds_pc = "call"
    /\ ds_value' = _detect_section(pdf_processor, ds_text)
    /\ ds_pc' = "returned"
    /\ UNCHANGED <<pdf_processor, ds_text, exVars, ccVars, ppVars, stVars, acVars, btVars,
                   mdVars, raVars>>

NextDetect == DsDetect

SpecDetect == InitDetect /\ [][NextDetect]_vars

Init == InitChunks

Next == NextChunks

Spec == SpecChunks

(***************************************************************************)
(* Properties of _create_chunks (SpecChunks)                               *)
(***************************************************************************)
\* the call is over: it returned or it raised
CcFinished == cc_pc \in {"returned", "raised"}

\* the positions of the non-heading blocks of the argument, in order
RECURSIVE BodyPositionsFrom(_, _)
BodyPositionsFrom(blocks, i) ==
    IF i > Len(blocks) THEN <<>>
    ELSE (IF blocks[i].is_heading THEN <<>> ELSE <<i>>) \o BodyPositionsFrom(blocks, i + 1)

BodyPositions == BodyPositionsFrom(cc_blocks, 1)

BodyWordCounts == [k \in DOMAIN BodyPositions |-> WordCount(cc_blocks[BodyPositions[k]].text)]

ChunkWordCounts == [k \in DOMAIN cc_value |-> cc_value[k].metadata.word_count]

\* C1: when a call of _create_chunks is over, the word_count values of the
\* chunks it handed back add up to the number of whitespace-separated words
\* of the non-heading blocks it was given.
C1_WordsConserved ==
    CcFinished => SeqSum(ChunkWordCounts) = SeqSum(BodyWordCounts)

\* C2: a call of _create_chunks returns its chunks, and each of them except
\* possibly the last has word_count <= chunk_size.
C2_ChunksWithinSize ==
    CcFinished =>
        /\ cc_pc = "returned"
        /\ \A k \in 1..(Len(cc_value) - 1) :
               cc_value[k].metadata.word_count <= pdf_processor.chunk_size

\* C3: a call of _create_chunks returns its chunks, and their chunk_id values
\* in emission order are 0, 1, ..., k-1.
C3_ChunkIdsContiguous ==
    CcFinished =>
        /\ cc_pc = "returned"
        /\ \A k \in DOMAIN cc_value : cc_value[k].metadata.chunk_id = k - 1

\* the end positions (in BodyPositions) of m consecutive runs that cover the
\* non-heading blocks
RunEnds(m) ==
    {e \in [1..m -> DOMAIN BodyPositions] :
        /\ \A k \in 1..(m - 1) : e[k] < e[k + 1]
        /\ m > 0 => e[m] = Len(BodyPositions)}

\* the text of the last heading block before position i, None if there is none
HeadingInForce(i) ==
    LET hs == {j \in 1..(i - 1) : cc_blocks[j].is_heading}
    IN  IF hs = {} THEN None
        ELSE cc_blocks[CHOOSE j \in hs : \A h \in hs : h <= j].text

\* C5: a call of _create_chunks returns chunks that split the non-heading
\* blocks into consecutive runs, and each chunk's page, section and heading
\* are those in force at the last block of its run.
C5_TrailingEdgeMetadata ==
    CcFinished =>
        /\ cc_pc = "returned"
        /\ (Len(BodyPositions) = 0 => Len(cc_value) = 0)
        /\ Len(BodyPositions) > 0 =>
             \E e \in RunEnds(Len(cc_value)) :
                \A k \in DOMAIN cc_value :
                    LET first == IF k = 1 THEN 1 ELSE e[k - 1] + 1
                        last  == cc_blocks[BodyPositions[e[k]]]
                    IN  /\ cc_value[k].text =
                              Join([n \in 1..(e[k] - first + 1) |->
                                       cc_blocks[BodyPositions[first + n - 1]].text])
                        /\ cc_value[k].metadata.page = last.page
                        /\ cc_value[k].metadata.section = last.section
                        /\ cc_value[k].metadata.heading = HeadingInForce(BodyPositions[e[k]])

\* C6: for the scenario document (heading "Introduction" in 14 pt, then 520
\* words of body text) and chunk_size = 500, _create_chunks applied to the
\* blocks of _extract_text_with_structure returns exactly 2 chunks, both of
\* section "introduction", the first of at most 500 words, the second with
\* the remaining words.
C6_ScenarioTwoChunks ==
    (/\ CcFinished
     /\ cc_blocks \in ScenarioBlockSeqs
     /\ pdf_processor.chunk_size = DefaultChunkSize) =>
        /\ cc_pc = "returned"
        /\ Len(cc_value) = 2
        /\ \A k \in DOMAIN cc_value : cc_value[k].metadata.section = sIntroduction
        /\ cc_value[1].metadata.word_count <= DefaultChunkSize
        /\ cc_value[2].metadata.word_count =
               ScenarioWords - cc_value[1].metadata.word_count

\* C8: _create_chunks applied to the empty block sequence returns the empty
\* list and does not raise.
C8_EmptyInEmptyOut ==
    (CcFinished /\ cc_blocks = <<>>) => (cc_pc = "returned" /\ cc_value = <<>>)

\* a call on the empty block sequence has returned
C8_Witness == cc_pc = "returned" /\ cc_blocks = <<>>

(***************************************************************************)
(* Properties of _extract_text_with_structure (SpecExtract)                *)
(***************************************************************************)
\* the heading text matches one of the known section patterns
MatchesKnownPattern(text) ==
    \E k \in DOMAIN section_patterns : ReMatch(section_patterns[k], Strip(Lower(text)))

\* block i of the stream is a heading that matches a known pattern
Recognized(i) ==
    ex.text_blocks[i].is_heading /\ MatchesKnownPattern(ex.text_blocks[i].text)

\* the section name of a recognized heading, formed as line 166 forms it
SectionNameOf(text) == FirstWord(Strip(Lower(text)))

\* C4: in the emitted block stream, the blocks strictly between two
\* recognized headings H1 and H2 (none recognized in between) carry H1's
\* section, and the blocks before the first recognized heading carry the
\* sentinel "unknown" (compared without regard to case).
C4_SectionTagging ==
    LET tb == ex.text_blocks
    IN  /\ \A i \in DOMAIN tb, k \in DOMAIN tb :
               (/\ i < k
                /\ Recognized(i)
                /\ Recognized(k)
                /\ \A j \in (i + 1)..(k - 1) : ~Recognized(j)) =>
                   \A j \in (i + 1)..(k - 1) : tb[j].section = SectionNameOf(tb[i].text)
        /\ \A j \in DOMAIN tb :
               (\A i \in 1..j : ~Recognized(i)) => Lower(tb[j].section) = sUnknownLower

(***************************************************************************)
(* Properties of process_pdf (SpecPdf)                                     *)
(***************************************************************************)
\* C7: process_pdf on a PDF of zero pages does not raise, and what it
\* returns has empty chunks, images, tables and headings.
C7_ZeroPagesEmptyResult ==
    (pp_file.valid /\ Len(pp_file.doc) = 0) =>
        /\ pp_pc # "raised"
        /\ pp_pc = "returned" =>
              /\ pp.chunks = <<>>
              /\ pp.images = <<>>
              /\ pp.tables = <<>>
              /\ pp.headings = <<>>

(***************************************************************************)
(* Properties of process_documents (SpecBatch)                             *)
(***************************************************************************)
\* C9: a file whose processing raised does not end the batch: add_chunks was
\* not called for a file whose process_pdf raised, the name of a file that
\* failed is not in processed_files (unless a file of the same name was
\* processed), process_documents itself does not raise, and when it returns
\* every file of the batch has been visited.
C9_FailureAbortsOneDocument ==
    /\ bt_pc # "raised"
    /\ bt_pc = "returned" => Len(bt_log) = Len(bt_files)
    /\ \A k \in DOMAIN bt_log :
          /\ bt_log[k] = "failed" => (k - 1) \notin bt_calls
          /\ bt_log[k] \in {"failed", "store_failed"} =>
                \/ bt_files[k].name \notin processed_files
                \/ \E j \in DOMAIN bt_log :
                      bt_log[j] = "processed" /\ bt_files[j].name = bt_files[k].name

\* the batch returned after a file failed and a later .pdf file was tried
C9_Witness ==
    /\ bt_pc = "returned"
    /\ \E k \in DOMAIN bt_log, j \in DOMAIN bt_log :
          /\ k < j
          /\ bt_log[k] = "failed"
          /\ bt_log[j] # "skipped"

(***************************************************************************)
(* Properties of add_chunks (SpecStore)                                    *)
(***************************************************************************)
\* the ids of the chunks of the call that have text
OwnIds ==
    {ChunkIdOf(ac_file, k - 1) :
        k \in {n \in DOMAIN ac_chunks : Len(Strip(ac_chunks[n].text)) > 0}}

\* C10: when a call of add_chunks on a new collection is over, whether it
\* returned or raised, the collection holds all the chunks of the document
\* that have text or none of them.
C10_AllOrNothing ==
    ac_pc \in {"returned", "raised"} =>
        (DOMAIN collection = {} \/ DOMAIN collection = OwnIds)

(***************************************************************************)
(* Properties of _extract_images and _extract_tables (SpecMedia)           *)
(***************************************************************************)
\* the exceptions one item raises: an image that cannot be decoded, and the
\* attribute errors of the two caption helpers
ItemFailures == {"ValueError", "AttributeError"}

\* C11: the failure of one image, one table or one caption lookup does not
\* leave _extract_images or _extract_tables: no call of the two ends with
\* the exception of an item.
C11_ItemFailureNotFatal ==
    md_pc = "raised" => md_exc \notin ItemFailures

\* the tables of all pages
AllPageTables == Flatten([p \in DOMAIN md_doc |-> md_doc[p].tables])

\* C12: every table _extract_tables returned has at least 2 rows, in
\* num_rows and in data; tables of fewer rows are passed over before
\* anything is done with them, so a document that has only such tables
\* gets its (empty) list back.
C12_TablesHaveTwoRows ==
    /\ \A k \in DOMAIN md_tables :
          md_tables[k].num_rows >= 2 /\ Len(md_tables[k].data) >= 2
    /\ (\A k \in DOMAIN AllPageTables : Len(AllPageTables[k]) < 2) =>
          ~(md_pc = "raised" /\ md_exc \in ItemFailures)

\* _extract_tables returned for a document that has a table of one row
C12_Witness ==
    /\ md_pc = "returned"
    /\ \E k \in DOMAIN AllPageTables : Len(AllPageTables[k]) = 1

(***************************************************************************)
(* Properties of VectorStore.search (SpecSearch)                           *)
(***************************************************************************)
\* filters names both a section and a filename
BothFilters ==
    /\ ~sr_filters.is_none
    /\ Truthy(DictGet(sr_filters.items, "section"))
    /\ Truthy(DictGet(sr_filters.items, "filename"))

\* C13: search with a section filter and a filename filter returns only
\* chunks whose metadata has that section and that filename; with the
\* filters section "results" and filename "a.pdf" on a store that holds
\* only chunks of b.pdf it returns the empty list.
C13_FiltersConjoined ==
    (sr_pc = "returned" /\ BothFilters) =>
        /\ \A k \in DOMAIN sr_value :
              /\ sr_value[k].metadata.section = DictGet(sr_filters.items, "section")
              /\ sr_value[k].metadata.filename = DictGet(sr_filters.items, "filename")
        /\ (/\ DictGet(sr_filters.items, "section") = sResults
            /\ DictGet(sr_filters.items, "filename") = <<"a",".","p","d","f">>
            /\ \A id \in DOMAIN collection : collection[id].metadata.filename = <<"b",".","p","d","f">>)
           => sr_value = <<>>

\* the scenario: the filters section "results" and filename "a.pdf", n_results
\* 3, a store of b.pdf only that has a chunk of section "results"; the call
\* returned
C13_Witness ==
    /\ sr_pc = "returned"
    /\ sr_n_results = 3
    /\ sr_filters = Filters({<<"section", sResults>>, <<"filename", <<"a",".","p","d","f">>>>})
    /\ DOMAIN collection # {}
    /\ \A id \in DOMAIN collection : collection[id].metadata.filename = <<"b",".","p","d","f">>
    /\ \E id \in DOMAIN collection : collection[id].metadata.section = sResults
    /\ sr_value = <<>>

\* C14: every result has similarity = 1 - distance with 0 <= similarity <= 1,
\* and the results come by descending similarity in the order of retrieval.
C14_SimilarityRange ==
    sr_pc = "returned" =>
        /\ \A k \in DOMAIN sr_value :
              /\ sr_value[k].similarity = One - sr_results.distances[1][k]
              /\ sr_value[k].similarity >= 0
              /\ sr_value[k].similarity <= One
              /\ sr_value[k].chunk_id = sr_results.ids[1][k]
        /\ \A i, j \in DOMAIN sr_value :
              i < j => sr_value[i].similarity >= sr_value[j].similarity

(***************************************************************************)
(* Properties of _format_sources and _build_context (SpecFormat)           *)
(***************************************************************************)
\* the source has a filename, a page, a section and a similarity
Complete(source) ==
    /\ "similarity" \in DOMAIN source
    /\ {"filename", "page", "section"} \subseteq DOMAIN source.metadata

\* "N. <U+1F4C4> filename (Page p) - Section - Relevance: X%"
CitationLine(N, source) ==
    StrInt(N) \o <<"."," ">> \o <<"U+1F4C4", " ">> \o source.metadata.filename
    \o <<" ","(","P","a","g","e"," ">> \o StrInt(source.metadata.page) \o <<")">>
    \o <<" ","-"," ">> \o Title(source.metadata.section)
    \o <<" ","-"," ","R","e","l","e","v","a","n","c","e",":"," ">> \o StrInt(TruncDiv(source.similarity * 100, One)) \o <<"%">>

\* C15: _format_sources gives "No sources found." for the empty list, and
\* for other lists the header "**Sources:**", a blank line, and one
\* citation line per source, the lines joined by newlines with nothing after
\* the last.
C15_FormatSources ==
    (fm_pc = "returned" /\ \A k \in DOMAIN fm_sources : Complete(fm_sources[k])) =>
        fm_formatted =
            IF Len(fm_sources) = 0 THEN <<"N","o"," ","s","o","u","r","c","e","s"," ","f","o","u","n","d",".">>
            ELSE <<"*","*","S","o","u","r","c","e","s",":","*","*">> \o NL \o NL
                 \o JoinWith(NL, [k \in DOMAIN fm_sources |-> CitationLine(k, fm_sources[k])])

\* t stands in str from position k on
IsAt(str, t, k) ==
    /\ k + Len(t) - 1 <= Len(str)
    /\ \A j \in DOMAIN t : str[k + j - 1] = t[j]

Occurrences(str, t) == {k \in DOMAIN str : IsAt(str, t, k)}

\* the i-th chunk's text after its tag "[Source i - Page p, Section: s]"
ContextBlock(i, chunk) ==
    <<"[","S","o","u","r","c","e"," ">> \o StrInt(i) \o <<" ","-"," ","P","a","g","e"," ">> \o StrInt(chunk.metadata.page)
    \o <<","," ","S","e","c","t","i","o","n",":"," ">> \o chunk.metadata.section \o <<"]">> \o NL \o chunk.text

\* C16: the context of n retrieved chunks has exactly n context blocks, in
\* the order of retrieval, the i-th being the i-th chunk's text under its
\* tag.
C16_ContextHasEveryChunk ==
    (/\ fm_pc \in {"sources", "returned"}
     /\ Len(fm_sources) > 0
     /\ \A k \in DOMAIN fm_sources : "section" \in DOMAIN fm_sources[k].metadata) =>
        /\ fm_context # None
        /\ Cardinality(Occurrences(fm_context, <<"[","S","o","u","r","c","e">>)) = Len(fm_sources)
        /\ \E pos \in [DOMAIN fm_sources -> DOMAIN fm_context] :
              /\ \A i, j \in DOMAIN pos : i < j => pos[i] < pos[j]
              /\ \A i \in DOMAIN pos : IsAt(fm_context, ContextBlock(i, fm_sources[i]), pos[i])

(***************************************************************************)
(* Properties of answer_question (SpecAgent)                               *)
(***************************************************************************)
\* C17: with the store empty or out of reach, answer_question does not
\* raise, does not call the LLM, and returns the answer that no relevant
\* information was found, with no sources.
C17_RetrievalUnavailable ==
    (ag_pc # "idle" /\ (DOMAIN collection = {} \/ ~store_up)) =>
        /\ ag_pc # "raised"
        /\ ag_llm_calls = 0
        /\ ag_pc \in {"search", "returned"}
        /\ ag_pc = "returned" =>
              /\ ag_value.answer = NoInformationAnswer
              /\ ag_value.sources = <<>>

\* ollama.chat was called and did not give an answer
LlmFailed == ag_llm_calls > 0 /\ (ag_llm.exc # NoExc \/ ~HasAttr(ag_llm.response, "message"))

\* C18: when the call of the LLM fails, _generate_answer returns a message
\* that says so, and answer_question returns it with the retrieved chunks as
\* sources: nothing is raised.
C18_GenerationFailureCaught ==
    LlmFailed =>
        /\ ag_pc # "raised"
        /\ ag_pc \in {"return", "returned"}
        /\ StartsWith(ag_value.answer, <<"E","r","r","o","r"," ","g","e","n","e","r","a","t","i","n","g"," ","a","n","s","w","e","r",":"," ">>)
        /\ ag_pc = "returned" =>
              /\ ag_value.sources = sr_value
              /\ Len(ag_value.sources) > 0
              /\ ag_value.query = ag_question

\* answer_question returned after the server's error reply
C18_Witness ==
    /\ ag_pc = "returned"
    /\ ag_llm.exc = "ResponseError"
    /\ Len(ag_value.sources) > 0

(***************************************************************************)
(* Properties of _detect_section (SpecDetect)                              *)
(***************************************************************************)
\* the patterns of the list that match the case-folded, trimmed text
MatchingPatterns(text) ==
    {k \in DOMAIN section_patterns : ReMatch(section_patterns[k], Strip(Lower(text)))}

\* C19: _detect_section tries every pattern of the list in order; when one
\* matches, the result names the section of the first that does (it is a
\* name that pattern matches), and only when none matches is it None.
C19_EveryPatternTried ==
    ds_pc = "returned" =>
        IF MatchingPatterns(ds_text) = {} THEN ds_value = None
        ELSE LET first == CHOOSE k \in MatchingPatterns(ds_text) :
                             \A j \in MatchingPatterns(ds_text) : k <= j
             IN  /\ ds_value # None
                 /\ ReMatch(section_patterns[first], ds_value)

(***************************************************************************)
(* The frame of current_section (SpecExtract)                              *)
(***************************************************************************)
\* the text and the heading flag the loop body computes for a layout block
\* of type 0
BlockText(block) ==
    Strip(SpanLoop(Flatten(block.lines), [block_text |-> <<>>, max_font_size |-> 0]).block_text)

BlockIsHeading(block) ==
    SpanLoop(Flatten(block.lines), [block_text |-> <<>>, max_font_size |-> 0]).max_font_size
        > HeadingFontSize

\* the layout block the loop body is about to take
NextLayoutBlock == ex_doc[ex_page_num].blocks[ex_block]

\* C20: a pass of the block loop over a block that is no heading, or over a
\* heading that matches no known section pattern, leaves current_section as
\* it was; such a heading is emitted as a heading block under the section
\* that was active before it.
C20_SectionFrame ==
    [][ (/\ ex_pc = "running"
         /\ ex_page_num <= Len(ex_doc)
         /\ ex_block <= Len(ex_doc[ex_page_num].blocks)
         /\ ex_block' = ex_block + 1
         /\ \/ NextLayoutBlock.type # 0
            \/ ~BlockIsHeading(NextLayoutBlock)
            \/ ~MatchesKnownPattern(BlockText(NextLayoutBlock)))
        => /\ ex'.current_section = ex.current_section
           /\ (/\ NextLayoutBlock.type = 0
               /\ BlockIsHeading(NextLayoutBlock)
               /\ Len(BlockText(NextLayoutBlock)) > 0)
              => /\ Len(ex'.text_blocks) = Len(ex.text_blocks) + 1
                 /\ ex'.text_blocks[Len(ex'.text_blocks)].is_heading
                 /\ ex'.text_blocks[Len(ex'.text_blocks)].text = BlockText(NextLayoutBlock)
                 /\ ex'.text_blocks[Len(ex'.text_blocks)].section = ex.current_section
      ]_vars

\* a heading of no known section was emitted under the section "abstract"
\* that an earlier heading had set, and the block after it has that section
C20_Witness ==
    \E i \in DOMAIN ex.text_blocks :
        /\ i > 1 /\ i < Len(ex.text_blocks)
        /\ ex.text_blocks[i].is_heading
        /\ ~MatchesKnownPattern(ex.text_blocks[i].text)
        /\ ex.text_blocks[i - 1].section = sAbstract
        /\ ex.text_blocks[i].section = sAbstract
        /\ ex.text_blocks[i + 1].section = sAbstract

(***************************************************************************)
(* The runs of _create_chunks (SpecChunks)                                 *)
(***************************************************************************)
\* the word count of the non-heading blocks number a to b (in BodyPositions)
RunWordCount(a, b) == SeqSum([n \in 1..(b - a + 1) |-> BodyWordCounts[a + n - 1]])

\* the first position of the k-th run, given the end positions e
RunStart(e, k) == IF k = 1 THEN 1 ELSE e[k - 1] + 1

\* C21: a call of _create_chunks returns chunks that split the non-heading
\* blocks into consecutive runs of whole blocks, in document order; a run
\* goes on as long as its word count with the next block stays within
\* chunk_size, and ends before a block b when its word count plus that of b
\* exceeds chunk_size, so that the word_count of a chunk plus the word count
\* of the first block of the next chunk is greater than chunk_size.
C21_GreedySealing ==
    CcFinished =>
        /\ cc_pc = "returned"
        /\ (Len(BodyPositions) = 0 => Len(cc_value) = 0)
        /\ Len(BodyPositions) > 0 =>
             \E e \in RunEnds(Len(cc_value)) :
                \A k \in DOMAIN cc_value :
                    /\ cc_value[k].metadata.word_count = RunWordCount(RunStart(e, k), e[k])
                    /\ \A p \in (RunStart(e, k) + 1)..e[k] :
                          RunWordCount(RunStart(e, k), p) <= pdf_processor.chunk_size
                    /\ k < Len(cc_value) =>
                          cc_value[k].metadata.word_count + BodyWordCounts[e[k] + 1]
                              > pdf_processor.chunk_size

\* C22: the text of the chunks a call of _create_chunks returns is made of
\* the non-heading blocks only: each chunk's text is the single-space join
\* of the texts of a run of them, every non-heading block is in exactly one
\* run, the runs follow one another in document order, and no chunk holds
\* the text of a heading block.
C22_HeadingsNotInContent ==
    CcFinished =>
        /\ cc_pc = "returned"
        /\ (Len(BodyPositions) = 0 => Len(cc_value) = 0)
        /\ Len(BodyPositions) > 0 =>
             \E e \in RunEnds(Len(cc_value)) :
                \A k \in DOMAIN cc_value :
                    cc_value[k].text =
                        Join([n \in 1..(e[k] - RunStart(e, k) + 1) |->
                                 cc_blocks[BodyPositions[RunStart(e, k) + n - 1]].text])

(***************************************************************************)
(* Text and font size of the emitted blocks (SpecExtract)                  *)
(***************************************************************************)
\* the spans of a layout block that have text, in order
TextRuns(block) == SelectSeq(Flatten(block.lines), LAMBDA span : Len(span.text) > 0)

\* the texts of the runs one after the other
RunsText(block) == Flatten([k \in DOMAIN TextRuns(block) |-> TextRuns(block)[k].text])

\* the largest size among the runs, 0 when there is none
RECURSIVE MaxSize(_)
MaxSize(runs) == IF Len(runs) = 0 THEN 0 ELSE Max(Head(runs).size, MaxSize(Tail(runs)))

\* a string without its whitespace
NoSpaces(str) == SelectSeq(str, LAMBDA c : ~IsSpace(c))

\* the layout blocks of all pages, in document order
AllLayoutBlocks == Flatten([p \in DOMAIN ex_doc |-> ex_doc[p].blocks])

\* the text blocks among them whose runs give more than whitespace
BlocksWithText ==
    SelectSeq(AllLayoutBlocks,
              LAMBDA block : block.type = 0 /\ Len(NoSpaces(RunsText(block))) > 0)

\* C23: _extract_text_with_structure emits one block for every text block
\* whose text runs give more than whitespace and none for the others; the
\* emitted text is the runs' texts in order (compared without regard to
\* whitespace), font_size is the largest size among the runs, and is_heading
\* says that this size is greater than 12.
C23_RunsConcatenated ==
    ex_pc = "returned" =>
        /\ Len(ex.text_blocks) = Len(BlocksWithText)
        /\ \A k \in DOMAIN ex.text_blocks :
              k \in DOMAIN BlocksWithText =>
                 /\ NoSpaces(ex.text_blocks[k].text) = NoSpaces(RunsText(BlocksWithText[k]))
                 /\ ex.text_blocks[k].font_size = MaxSize(TextRuns(BlocksWithText[k]))
                 /\ ex.text_blocks[k].is_heading
                       = (MaxSize(TextRuns(BlocksWithText[k])) > HeadingFontSize)

(***************************************************************************)
(* What add_chunks hands to the collection (SpecStore)                     *)
(***************************************************************************)
\* how many times the id was handed to collection.add
TimesSent(id) ==
    Cardinality({<<c, k>> \in (DOMAIN ac_sent) \X (1..MaxStoreChunks + 1) :
                    k \in DOMAIN ac_sent[c] /\ ac_sent[c][k] = id})

\* the positions of the chunks that have text
WithText == {n \in DOMAIN ac_chunks : Len(Strip(ac_chunks[n].text)) > 0}

\* C24: one call of add_chunks hands no id to the collection a second
\* time; when it returns, every chunk with text was handed over once, under
\* the id "<file_name>_chunk_<i>" of its position i, these ids differ from
\* one another, no chunk of blank text was handed over, and the returned
\* number is the number of chunks handed over.
C24_SubmittedOnce ==
    /\ \A c \in DOMAIN ac_sent : \A k \in DOMAIN ac_sent[c] : TimesSent(ac_sent[c][k]) <= 1
    /\ ac_pc = "returned" =>
          /\ \A n \in WithText : TimesSent(ChunkIdOf(ac_file, n - 1)) = 1
          /\ \A n \in DOMAIN ac_chunks \ WithText : TimesSent(ChunkIdOf(ac_file, n - 1)) = 0
          /\ \A n, m \in WithText : n # m => ChunkIdOf(ac_file, n - 1) # ChunkIdOf(ac_file, m - 1)
          /\ ac_value = Cardinality(WithText)

====
